---- MODULE Spec2Model ----
(***************************************************************************)
(* Model of the content relevance gating engine of discord_summarizer      *)
(* (src/services/gating.py) with the configuration it reads from           *)
(* src/config.py.                                                          *)
(*                                                                         *)
(* Strings are sequences of characters.  A character is a one-letter       *)
(* string; the non-ASCII characters the model needs are named atoms        *)
(* ("o_acute" is U+00F3, "acute_mark" is the combining U+0301, "euro" is   *)
(* U+20AC, "tel_sign" is U+2121, whose compatibility decomposition is      *)
(* "TEL").                                                                 *)
(***************************************************************************)
EXTENDS Naturals, Integers, Sequences, FiniteSets, TLC

(***************************************************************************)
(* Python text primitives                                                  *)
(***************************************************************************)
LowerSeq == <<"a", "b", "c", "d", "e", "f", "g", "h", "i", "j", "k", "l", "m",
              "n", "o", "p", "q", "r", "s", "t", "u", "v", "w", "x", "y", "z">>
UpperSeq == <<"A", "B", "C", "D", "E", "F", "G", "H", "I", "J", "K", "L", "M",
              "N", "O", "P", "Q", "R", "S", "T", "U", "V", "W", "X", "Y", "Z">>
Digits == {"0", "1", "2", "3", "4", "5", "6", "7", "8", "9"}
AccentedLower == {"o_acute", "i_acute"}
AccentedUpper == {"O_acute"}
NonAscii == AccentedLower \cup AccentedUpper \cup {"acute_mark", "euro", "tel_sign"}
Whitespace == {" "}

Range(s) == {s[i] : i \in 1..Len(s)}

\* the lowercase form of every cased character
LowerMap ==
    [c \in Range(UpperSeq) \cup AccentedUpper |->
        IF c = "O_acute" THEN "o_acute"
        ELSE LowerSeq[CHOOSE i \in 1..Len(UpperSeq) : UpperSeq[i] = c]]

\* str.lower() on one character
LowerChar(c) == IF c \in DOMAIN LowerMap THEN LowerMap[c] ELSE c

\* str.lower()
Lower(s) == [i \in 1..Len(s) |-> LowerChar(s[i])]

\* str.strip(): drop leading and trailing whitespace
RECURSIVE LStrip(_)
LStrip(s) == IF s # <<>> /\ Head(s) \in Whitespace THEN LStrip(Tail(s)) ELSE s

RECURSIVE RStrip(_)
RStrip(s) ==
    IF s # <<>> /\ s[Len(s)] \in Whitespace
    THEN RStrip(SubSeq(s, 1, Len(s) - 1))
    ELSE s

Strip(s) == RStrip(LStrip(s))

\* unicodedata.normalize("NFKD", c) for one character
DecomposeChar(c) ==
    CASE c = "o_acute" -> <<"o", "acute_mark">>
      [] c = "i_acute" -> <<"i", "acute_mark">>
      [] c = "O_acute" -> <<"O", "acute_mark">>
      [] c = "tel_sign" -> <<"T", "E", "L">>
      [] OTHER -> <<c>>

RECURSIVE NFKD(_)
NFKD(s) == IF s = <<>> THEN <<>> ELSE DecomposeChar(Head(s)) \o NFKD(Tail(s))

\* text.encode("ascii", "ignore").decode("ascii", "ignore")
AsciiIgnore(s) == SelectSeq(s, LAMBDA c : c \notin NonAscii)

\* \w of Python's re on str patterns
IsWordChar(c) ==
    \/ c \in Range(LowerSeq) \cup Range(UpperSeq) \cup Digits \cup {"_"}
    \/ c \in AccentedLower \cup AccentedUpper

\* text[:n]
Prefix(s, n) == SubSeq(s, 1, IF Len(s) < n THEN Len(s) ELSE n)

(***************************************************************************)
(* gating.py: pure helpers                                                 *)
(***************************************************************************)
\* text[:4096] of _cache_key, scaled to the length of the model's texts
SnippetLen == 12

\* text=None: a value distinct from every string
None == <<"None">>

\* Falsy with the test `text is None` in place of `not text`
Falsy_none_only(text) == text = None

\* Python truthiness of `text`: `not text` holds for None and for ""
Falsy(text) == text = None \/ text = <<>>

\* _normalize_text lowercasing first and decomposing afterwards
_normalize_text_lower_first(text) == AsciiIgnore(NFKD(Lower(text)))

_normalize_text(text) == Lower(AsciiIgnore(NFKD(text)))

\* sha256 is modelled as injective: the key is the snippet it digests
\* a key made of the whole normalized text
_cache_key_whole(text) == text

_cache_key(text) == Prefix(text, SnippetLen)

\* \b at the gap before position p (1..Len(text)+1) of text
WordBoundary(text, p) ==
    LET before == p > 1 /\ IsWordChar(text[p - 1])
        after  == p <= Len(text) /\ IsWordChar(text[p])
    IN  before # after

\* re.search(re.escape(token), text): the pattern without the two \b
ReSearchWord_unbounded(token, text) ==
    \E i \in 1..(Len(text) - Len(token) + 1) :
        SubSeq(text, i, i + Len(token) - 1) = token

\* re.search(r"\b" + re.escape(token) + r"\b", text)
ReSearchWord(token, text) ==
    \E i \in 1..(Len(text) - Len(token) + 1) :
        /\ SubSeq(text, i, i + Len(token) - 1) = token
        /\ WordBoundary(text, i)
        /\ WordBoundary(text, i + Len(token))

\* _find_keyword_matches returning from inside the loop, after the first
\* keyword
_find_keyword_matches_first_only(text, keywords) ==
    IF keywords = <<>> THEN <<>>
    ELSE LET token == Lower(Strip(Head(keywords)))
         IN  IF token # <<>> /\ ReSearchWord(token, text) THEN <<token>> ELSE <<>>

\* `token in text`
IsSubstring(token, text) ==
    \E i \in 1..(Len(text) - Len(token) + 1) :
        SubSeq(text, i, i + Len(token) - 1) = token

\* FindKeywordMatchesWith that leaves the loop at the first re.error
RECURSIVE FindKeywordMatchesWith_abort(_, _, _)
FindKeywordMatchesWith_abort(text, keywords, bad) ==
    IF keywords = <<>> THEN <<>>
    ELSE LET token == Lower(Strip(Head(keywords)))
             rest  == FindKeywordMatchesWith_abort(text, Tail(keywords), bad)
         IN  IF token = <<>> THEN rest
             ELSE IF token \in bad THEN <<>>
             ELSE IF ReSearchWord(token, text) THEN <<token>> \o rest
             ELSE rest

\* _find_keyword_matches, where bad is the set of tokens for which re.search
\* raises re.error in this call: such a token is matched as a substring
RECURSIVE FindKeywordMatchesWith(_, _, _)
FindKeywordMatchesWith(text, keywords, bad) ==
    IF keywords = <<>> THEN <<>>
    ELSE LET token == Lower(Strip(Head(keywords)))
             rest  == FindKeywordMatchesWith(text, Tail(keywords), bad)
         IN  IF token = <<>> THEN rest
             ELSE IF token \in bad
             THEN (IF IsSubstring(token, text) THEN <<token>> \o rest ELSE rest)
             ELSE IF ReSearchWord(token, text) THEN <<token>> \o rest
             ELSE rest

\* _find_keyword_matches when no pattern raises
_find_keyword_matches(text, keywords) == FindKeywordMatchesWith(text, keywords, {})

S_model == <<"m", "o", "d", "e", "l">>
S_keywords == <<"k", "e", "y", "w", "o", "r", "d", "s">>
S_allow_if_any == <<"a", "l", "l", "o", "w", "_", "i", "f", "_", "a", "n", "y">>
S_deny_if_any == <<"d", "e", "n", "y", "_", "i", "f", "_", "a", "n", "y">>

_ALLOWED_MATCH_MODES == {S_allow_if_any, S_deny_if_any}

\* _evaluate_matches with the returns of the two modes exchanged
EvaluateMatchesWith_swapped(keywords, mode, matches) ==
    IF keywords = <<>> THEN TRUE
    ELSE LET match_mode == Lower(mode)
         IN  IF match_mode \notin _ALLOWED_MATCH_MODES THEN TRUE
             ELSE IF match_mode = S_allow_if_any THEN matches = <<>>
             ELSE IF match_mode = S_deny_if_any THEN matches # <<>>
             ELSE TRUE

\* _evaluate_matches reading the mode as GATING_MATCH_MODE.lower().strip()
EvaluateMatchesWith_stripped(keywords, mode, matches) ==
    IF keywords = <<>> THEN TRUE
    ELSE LET match_mode == Strip(Lower(mode))
         IN  IF match_mode \notin _ALLOWED_MATCH_MODES THEN TRUE
             ELSE IF match_mode = S_allow_if_any THEN matches # <<>>
             ELSE IF match_mode = S_deny_if_any THEN matches = <<>>
             ELSE TRUE

\* _evaluate_matches with the configuration it reads made explicit
EvaluateMatchesWith(keywords, mode, matches) ==
    IF keywords = <<>> THEN TRUE
    ELSE LET match_mode == Lower(mode)
         IN  IF match_mode \notin _ALLOWED_MATCH_MODES THEN TRUE
             ELSE IF match_mode = S_allow_if_any THEN matches # <<>>
             ELSE IF match_mode = S_deny_if_any THEN matches = <<>>
             ELSE TRUE

(***************************************************************************)
(* config.py: GATING_KEYWORDS from the comma-separated pieces              *)
(***************************************************************************)
RECURSIVE ConfigKeywords(_)
ConfigKeywords(pieces) ==
    IF pieces = <<>> THEN <<>>
    ELSE IF Strip(Head(pieces)) = <<>> THEN ConfigKeywords(Tail(pieces))
    ELSE <<Lower(Strip(Head(pieces)))>> \o ConfigKeywords(Tail(pieces))

(***************************************************************************)
(* Bounds and input sets                                                   *)
(***************************************************************************)
\* the monotonic clock runs from 0 to MaxTime
MaxTime == 2

RawModelPadded == <<" ", "M", "o", "d", "e", "l">>
RawKeywords == <<"k", "e", "y", "w", "o", "r", "d", "s">>
RawHybrid == <<"h", "y", "b", "r", "i", "d">>
Strategies == {RawModelPadded, RawKeywords, RawHybrid}

RawAllow == <<"a", "l", "l", "o", "w", "_", "i", "f", "_", "a", "n", "y">>
RawDenyCaps == <<"D", "e", "n", "y", "_", "I", "f", "_", "A", "n", "y">>
RawAllowPadded == <<" ", "a", "l", "l", "o", "w", "_", "i", "f", "_", "a", "n", "y">>
MatchModes == {RawAllow, RawDenyCaps, RawAllowPadded}

K_inflacion == <<"i", "n", "f", "l", "a", "c", "i", "o", "n">>
K_EstadoPadded == <<" ", "E", "s", "t", "a", "d", "o">>
K_mercosur == <<"m", "e", "r", "c", "o", "s", "u", "r">>
K_blank == <<" ">>
\* the pieces of the GATING_KEYWORDS environment value, split at ","
KeywordPieces == { << <<>> >>,
                   << K_inflacion >>,
                   << K_EstadoPadded, K_mercosur, K_blank >> }

TTLs == {-1, 0, 2}

T_inflacion == <<"L", "a", " ", "i", "n", "f", "l", "a", "c", "i", "o", "n", " ", "s", "u", "b", "i", "o", " ", "e", "s", "t", "e", " ", "m", "e", "s">>
T_clima == <<"E", "l", " ", "c", "l", "i", "m", "a", " ", "e", "s", "t", "u", "v", "o", " ", "s", "o", "l", "e", "a", "d", "o">>
\* shares its first SnippetLen normalized characters with T_inflacion
T_mercosur == <<"L", "a", " ", "I", "n", "f", "l", "a", "c", "i", "o", "n", " ", "y", " ", "e", "l", " ", "M", "e", "r", "c", "o", "s", "u", "r">>
Texts == {None, <<>>, T_inflacion, T_clima, T_mercosur}

KeywordLists == {ConfigKeywords(p) : p \in KeywordPieces}

\* texts and keywords for the keyword scan itself
K_estado == <<"e", "s", "t", "a", "d", "o">>
K_banco_central == <<"b", "a", "n", "c", "o", " ", "c", "e", "n", "t", "r", "a", "l">>
MatchKeywordPieces == { << K_estado >>,
                        << K_estado, K_EstadoPadded >>,
                        << K_estado, K_blank, K_banco_central >> }
MatchKeywordLists == {ConfigKeywords(p) : p \in MatchKeywordPieces}
T_estadocracia == <<"L", "a", " ", "e", "s", "t", "a", "d", "o", "c", "r", "a", "c", "i", "a", " ", "y", " ", "u", "n", " ", "e", "s", "t", "a", "d", "o", "X", "Y", "Z">>
T_estado == <<"E", "l", " ", "E", "s", "t", "a", "d", "o", " ", "u", "r", "u", "g", "u", "a", "y", "o">>
T_banco == <<"E", "l", " ", "B", "a", "n", "c", "o", " ", "C", "e", "n", "t", "r", "a", "l", ",", " ", "e", "l", " ", "e", "s", "t", "a", "d", "o", " ", "y", " ", "e", "l", " ", "e", "s", "t", "a", "d", "o">>
T_banco_split == <<"O", "t", "r", "o", " ", "b", "a", "n", "c", "o", " ", "n", "a", "c", "i", "o", "n", "a", "l", " ", "c", "e", "n", "t", "r", "a", "l">>
MatchTexts == {T_estadocracia, T_estado, T_banco, T_banco_split}
\* the tokens whose pattern can raise re.error in a call
BadTokenSets == {{}, {K_estado}}
\* what the keyword evaluation of a call does apart from that: "none", or
\* "raise" for an unexpected exception inside the try block of lines 125-129
KeywordFaults == {"none", "raise"}

\* texts with one normalized form, "la inflacion", written with capitals, a
\* precomposed accent and a combining accent, and keywords written that way
T_acc_plain == <<"l", "a", " ", "i", "n", "f", "l", "a", "c", "i", "o", "n">>
T_acc_caps == <<"L", "A", " ", "I", "N", "F", "L", "A", "C", "I", "O", "N">>
T_acc_composed == <<"L", "a", " ", "I", "n", "f", "l", "a", "c", "i", "o_acute", "n">>
T_acc_combining == <<"L", "a", " ", "i", "n", "f", "l", "a", "c", "i", "o", "acute_mark", "n">>
AccentTexts == {T_acc_plain, T_acc_caps, T_acc_composed, T_acc_combining, T_clima}
K_INFLACION == <<"I", "N", "F", "L", "A", "C", "I", "O", "N">>
K_Inflacion_acute == <<"I", "n", "f", "l", "a", "c", "i", "o_acute", "n">>
K_clima == <<"c", "l", "i", "m", "a">>
AccentKeywordPieces == { << K_INFLACION >>,
                         << K_Inflacion_acute >>,
                         << K_clima, K_Inflacion_acute >> }
AccentKeywordLists == {ConfigKeywords(p) : p \in AccentKeywordPieces}

\* The text helpers, evaluated once per input instead of once per call:
\* _normalize_text(text) and _find_keyword_matches(normalized, keywords)
AllTexts == Texts \cup MatchTexts \cup AccentTexts
AllKeywordLists == KeywordLists \cup MatchKeywordLists \cup AccentKeywordLists
normalized_of == [t \in AllTexts |-> _normalize_text(t)]
matches_of ==
    [t \in AllTexts, k \in AllKeywordLists |->
        _find_keyword_matches(normalized_of[t], k)]
strategy_of == [s \in Strategies |-> Strip(Lower(s))]

\* what a call of is_article_relevant can do at the gating boundary
ClassifierOutcomes == {"True", "False", "None", "raise"}
\* the input of a call: the classifier's outcome, "not_called" for a call that
\* does not reach the classifier
ClassifierInputs == ClassifierOutcomes \cup {"not_called"}

\* text[:8000] of is_article_relevant, scaled to the length of the model's
\* texts
ClassifierBudget == 24

\* is_article_relevant called with the normalized text
ClassifierArg_normalized(text) == normalized_of[text]

\* the argument of `is_article_relevant(text)` (gating.py lines 52, 110)
ClassifierArg(text) == text

\* the article text in user_prompt (ai_services.py line 238)
classifier_article(text) == Prefix(text, ClassifierBudget)

(***************************************************************************)
(* State                                                                   *)
(***************************************************************************)
VARIABLES
    ENABLE_GATING, GATING_STRATEGY, GATING_MATCH_MODE, GATING_KEYWORDS,
    GATING_DEFAULT_ON_ERROR, GATING_CACHE_TTL_SECONDS,
    USE_MODEL_BASED_GATING, MODEL_BASED_GATING_FALLBACK_TO_KEYWORDS,
    _CACHE,   \* key -> [expires_at, decision]
    now,      \* time.monotonic()
    last,     \* observation of the most recent call
    \* one call of get_ai_summary / get_audio_summary (ai_services.py)
    s_pc,         \* "idle", "primary", "secondary", "done"
    s_fn,         \* the function called
    s_text,       \* its argument
    s_client,     \* whether openai_client is set
    s_calls,      \* the outbound calls made so far, in order
    s_primary,    \* what responses.create did
    s_secondary,  \* what chat.completions.create did
    s_result,     \* the value returned
    \* concurrent Decide calls on the cache (gating.py lines 147-167)
    _CACHE_LOCK,  \* the thread holding the lock, 0 when it is free
    t_pc,         \* each thread's position
    t_frame,      \* each thread's local variables
    \* one run of the summarizenews command (cogs/news.py)
    ENABLE_AUDIO_OVERVIEWS, GATING_SHOW_MATCHES,
    n_pc,           \* the command's position
    n_feed,         \* index in RSS_FEEDS of the feed being processed
    n_item,         \* index of the entry being processed
    n_entries,      \* per feed reached: the length of feed.entries[:ARTICLES_PER_FEED]
    n_cur,          \* the locals of the loop body for the current entry
    n_out,          \* how the body ended for each entry it was entered for
    n_sent,         \* the embeds sent with ctx.send
    n_errors,       \* the feeds whose error message was sent
    sent_anything,
    n_status        \* the final status message

config == <<ENABLE_GATING, GATING_STRATEGY, GATING_MATCH_MODE, GATING_KEYWORDS,
            GATING_DEFAULT_ON_ERROR, GATING_CACHE_TTL_SECONDS,
            USE_MODEL_BASED_GATING, MODEL_BASED_GATING_FALLBACK_TO_KEYWORDS>>
sum_vars == <<s_pc, s_fn, s_text, s_client, s_calls, s_primary, s_secondary, s_result>>
lock_vars == <<_CACHE_LOCK, t_pc, t_frame>>
news_vars == <<ENABLE_AUDIO_OVERVIEWS, GATING_SHOW_MATCHES, n_pc, n_feed, n_item,
               n_entries, n_cur, n_out, n_sent, n_errors, sent_anything, n_status>>
vars == <<config, _CACHE, now, last, sum_vars, lock_vars, news_vars>>

EmptyCache == [k \in {} |-> [expires_at |-> 0, decision |-> TRUE]]

NoCall == [op |-> "none", text |-> None, allowed |-> TRUE,
           matches |-> <<>>, lookup |-> FALSE, hit |-> FALSE, cls |-> "not_called",
           scanned |-> FALSE, stored |-> FALSE, repeat |-> FALSE, at |-> 0,
           raised |-> FALSE, kwerror |-> FALSE, bad |-> {}, sent |-> None]

\* a reply of responses.create: an exception, or a response with output_text
\* and output, a list of items with text and content, a list of parts with text
NoResponse == [output_text |-> None, output |-> <<>>]
NoPrimary == [made |-> FALSE, raises |-> FALSE, response |-> NoResponse]
\* a reply of chat.completions.create: an exception, or a completion with
\* choices, each with message.content
NoSecondary == [made |-> FALSE, raises |-> FALSE, choices |-> <<>>]

\* no summary call is under way
SummarizeIdle ==
    /\ s_pc = "idle"
    /\ s_fn = "none"
    /\ s_text = None
    /\ s_client = FALSE
    /\ s_calls = <<>>
    /\ s_primary = NoPrimary
    /\ s_secondary = NoSecondary
    /\ s_result = None

\* the threads of the executor that run Decide calls
Threads == {1, 2}
NoEntry == [expires_at |-> 0, decision |-> FALSE]
NoFrame == [key |-> <<>>, now |-> 0, found |-> FALSE, entry |-> NoEntry,
            expires_at |-> 0, decision |-> FALSE]

\* no thread is in a Decide call
ThreadsIdle ==
    /\ _CACHE_LOCK = 0
    /\ t_pc = [th \in Threads |-> "idle"]
    /\ t_frame = [th \in Threads |-> NoFrame]

\* the locals of the loop body of summarize_news for one entry; steps lists
\* the awaited calls made for it so far, id is the feed and the index of the
\* entry, end is how the body ended for it
NoItem == [text |-> None, image_url |-> FALSE, allowed |-> FALSE, matches |-> <<>>,
           summary |-> None, files |-> {}, footer |-> <<>>, steps |-> <<>>,
           end |-> "open", id |-> <<0, 0>>]
NoOutcomes == [p \in {} |-> "open"]

\* the summarizenews command is not running
NewsIdle ==
    /\ ENABLE_AUDIO_OVERVIEWS = FALSE
    /\ GATING_SHOW_MATCHES = FALSE
    /\ n_pc = "idle"
    /\ n_feed = 0
    /\ n_item = 0
    /\ n_entries = <<>>
    /\ n_cur = NoItem
    /\ n_out = NoOutcomes
    /\ n_sent = {}
    /\ n_errors = {}
    /\ sent_anything = FALSE
    /\ n_status = "none"

\* The environments the model starts from.  A setting that no path of
\* gating.py reads under the rest of the configuration keeps its config.py
\* default: the model flags when the strategy is not "model", the fallback and
\* default-on-error flags when the classifier is not used, the match mode when
\* there are no keywords.
Configs ==
    {c \in [enable : BOOLEAN, strategy : Strategies, mode : MatchModes,
            keywords : KeywordLists, default : BOOLEAN, ttl : TTLs,
            use_model : BOOLEAN, fallback : BOOLEAN] :
        /\ strategy_of[c.strategy] # S_model => c.use_model
        /\ ~(c.use_model /\ strategy_of[c.strategy] = S_model) => c.fallback /\ c.default
        /\ c.keywords = <<>> => c.mode = RawAllow}

Init ==
    /\ \E c \in Configs :
        /\ ENABLE_GATING = c.enable
        /\ GATING_STRATEGY = c.strategy
        /\ GATING_MATCH_MODE = c.mode
        /\ GATING_KEYWORDS = c.keywords
        /\ GATING_DEFAULT_ON_ERROR = c.default
        /\ GATING_CACHE_TTL_SECONDS = c.ttl
        /\ USE_MODEL_BASED_GATING = c.use_model
        /\ MODEL_BASED_GATING_FALLBACK_TO_KEYWORDS = c.fallback
    /\ _CACHE = EmptyCache
    /\ now = 0
    /\ last = NoCall
    /\ SummarizeIdle
    /\ ThreadsIdle
    /\ NewsIdle

(***************************************************************************)
(* gating.py: the cache                                                    *)
(***************************************************************************)
\* _get_cached with the expiry comparison turned round (now <= expires_at)
_get_cached_inverted(cache, key, t) ==
    IF GATING_CACHE_TTL_SECONDS <= 0
    THEN [hit |-> FALSE, decision |-> FALSE, cache |-> cache]
    ELSE IF key \notin DOMAIN cache
    THEN [hit |-> FALSE, decision |-> FALSE, cache |-> cache]
    ELSE IF t <= cache[key].expires_at
    THEN [hit |-> FALSE, decision |-> FALSE,
          cache |-> [k \in DOMAIN cache \ {key} |-> cache[k]]]
    ELSE [hit |-> TRUE, decision |-> cache[key].decision, cache |-> cache]

\* _get_cached without the _CACHE.pop of an expired entry
_get_cached_keeps_expired(cache, key, t) ==
    IF GATING_CACHE_TTL_SECONDS <= 0
    THEN [hit |-> FALSE, decision |-> FALSE, cache |-> cache]
    ELSE IF key \notin DOMAIN cache
    THEN [hit |-> FALSE, decision |-> FALSE, cache |-> cache]
    ELSE IF t >= cache[key].expires_at
    THEN [hit |-> FALSE, decision |-> FALSE, cache |-> cache]
    ELSE [hit |-> TRUE, decision |-> cache[key].decision, cache |-> cache]

\* _get_cached with the expiry test `now > expires_at`
_get_cached_late(cache, key, t) ==
    IF GATING_CACHE_TTL_SECONDS <= 0
    THEN [hit |-> FALSE, decision |-> FALSE, cache |-> cache]
    ELSE IF key \notin DOMAIN cache
    THEN [hit |-> FALSE, decision |-> FALSE, cache |-> cache]
    ELSE IF t > cache[key].expires_at
    THEN [hit |-> FALSE, decision |-> FALSE,
          cache |-> [k \in DOMAIN cache \ {key} |-> cache[k]]]
    ELSE [hit |-> TRUE, decision |-> cache[key].decision, cache |-> cache]

\* _get_cached renewing the expiry of the entry it returns
_get_cached_sliding(cache, key, t) ==
    IF GATING_CACHE_TTL_SECONDS <= 0
    THEN [hit |-> FALSE, decision |-> FALSE, cache |-> cache]
    ELSE IF key \notin DOMAIN cache
    THEN [hit |-> FALSE, decision |-> FALSE, cache |-> cache]
    ELSE IF t >= cache[key].expires_at
    THEN [hit |-> FALSE, decision |-> FALSE,
          cache |-> [k \in DOMAIN cache \ {key} |-> cache[k]]]
    ELSE [hit |-> TRUE, decision |-> cache[key].decision,
          cache |-> [cache EXCEPT ![key].expires_at = t + GATING_CACHE_TTL_SECONDS]]

\* _get_cached whose caller tests `if cached:`: a cached False is a miss
_get_cached_truthy(cache, key, t) ==
    IF GATING_CACHE_TTL_SECONDS <= 0
    THEN [hit |-> FALSE, decision |-> FALSE, cache |-> cache]
    ELSE IF key \notin DOMAIN cache
    THEN [hit |-> FALSE, decision |-> FALSE, cache |-> cache]
    ELSE IF t >= cache[key].expires_at
    THEN [hit |-> FALSE, decision |-> FALSE,
          cache |-> [k \in DOMAIN cache \ {key} |-> cache[k]]]
    ELSE [hit |-> cache[key].decision, decision |-> cache[key].decision,
          cache |-> cache]

\* _get_cached at clock t: the value returned and the cache it leaves
_get_cached(cache, key, t) ==
    IF GATING_CACHE_TTL_SECONDS <= 0
    THEN [hit |-> FALSE, decision |-> FALSE, cache |-> cache]
    ELSE IF key \notin DOMAIN cache
    THEN [hit |-> FALSE, decision |-> FALSE, cache |-> cache]
    ELSE IF t >= cache[key].expires_at
    THEN [hit |-> FALSE, decision |-> FALSE,
          cache |-> [k \in DOMAIN cache \ {key} |-> cache[k]]]
    ELSE [hit |-> TRUE, decision |-> cache[key].decision, cache |-> cache]

\* _set_cached storing expires_at = now, the TTL not added
_set_cached_no_ttl(cache, key, decision, t) ==
    IF GATING_CACHE_TTL_SECONDS <= 0 THEN cache
    ELSE [k \in DOMAIN cache \cup {key} |->
            IF k = key
            THEN [expires_at |-> t, decision |-> decision]
            ELSE cache[k]]

\* _set_cached with the guard `GATING_CACHE_TTL_SECONDS < 0`
_set_cached_zero_ttl(cache, key, decision, t) ==
    IF GATING_CACHE_TTL_SECONDS < 0 THEN cache
    ELSE [k \in DOMAIN cache \cup {key} |->
            IF k = key
            THEN [expires_at |-> t + GATING_CACHE_TTL_SECONDS, decision |-> decision]
            ELSE cache[k]]

\* _set_cached at clock t: the cache it leaves
_set_cached(cache, key, decision, t) ==
    IF GATING_CACHE_TTL_SECONDS <= 0 THEN cache
    ELSE [k \in DOMAIN cache \cup {key} |->
            IF k = key
            THEN [expires_at |-> t + GATING_CACHE_TTL_SECONDS, decision |-> decision]
            ELSE cache[k]]

\* _evaluate_matches
_evaluate_matches(matches) ==
    EvaluateMatchesWith(GATING_KEYWORDS, GATING_MATCH_MODE, matches)

\* GATING_STRATEGY.lower().strip()
strategy == strategy_of[GATING_STRATEGY]

(***************************************************************************)
(* gating.py: the two entry points.  A call is one action; its inputs are  *)
(* the text, the force flag and what the classifier does in this call      *)
(* (cls).  A call reads the clock once: time passes between calls (Tick).  *)
(* The result of an operator is [obs, cache, classifier]: what the call    *)
(* returned and did, the cache it leaves, and whether it called            *)
(* is_article_relevant.                                                    *)
(***************************************************************************)
\* op: the entry point; lookup: _get_cached was called; hit: it returned a
\* decision; cls: what the classifier did, "not_called" if it was not called;
\* scanned: the keyword path ran; stored: _set_cached was called; repeat: the
\* call before this one was the same entry point with the identical text; at:
\* the clock when it was called; raised: the call ended in an exception
\* instead of a return value; kwerror: the keyword evaluation raised; bad: the
\* tokens whose pattern raised re.error; sent: the article text in the prompt
\* the classifier builds from the argument it was called with, None when it
\* was not called
Obs(op, text, allowed, matches, lookup, hit, cls, scanned, stored) ==
    [op |-> op, text |-> text, allowed |-> allowed,
     matches |-> matches, lookup |-> lookup, hit |-> hit, cls |-> cls,
     scanned |-> scanned, stored |-> stored,
     repeat |-> last.op = op /\ last.text = text, at |-> now,
     raised |-> FALSE, kwerror |-> FALSE, bad |-> {},
     sent |-> IF cls \in ClassifierOutcomes
              THEN classifier_article(ClassifierArg(text))
              ELSE None]

\* the call ends in the exception: there is no return value
Propagated(obs) == [obs EXCEPT !.raised = TRUE]

\* an `except Exception` clause left without a handler for what was raised
ExceptException_unhandled(exc) == FALSE

\* `except Exception as exc` (lines 60, 120, 130, 84): whether the clause
\* catches what the try block raised, an instance of Exception
ExceptException(exc) == exc \in {"classifier", "keywords", "responses", "completions"}

\* the gating-disabled test with the sense of `force` turned round
GatingBypassed_forced(force) == ~ENABLE_GATING /\ force

\* `if not ENABLE_GATING and not force` (line 98)
GatingBypassed(force) == ~ENABLE_GATING /\ ~force

\* `if USE_MODEL_BASED_GATING and strategy == "model"` (lines 50, 108)
UseModel == USE_MODEL_BASED_GATING /\ strategy = S_model

\* `if not MODEL_BASED_GATING_FALLBACK_TO_KEYWORDS` (lines 62, 118, 122)
NoFallback == ~MODEL_BASED_GATING_FALLBACK_TO_KEYWORDS

\* `if strategy != "keywords" and strategy != "model"` (line 65)
UnsupportedStrategy == strategy # S_keywords /\ strategy # S_model

\* should_summarize_with_matches with everything its environment does in the
\* call: cls, what the classifier does; kw, whether the keyword evaluation
\* raises; bad, the tokens whose pattern raises re.error
Decide(text, force, cls, kw, bad) ==
    LET op         == "with_matches"
        normalized == normalized_of[text]
        cache_key  == _cache_key(normalized)
        cached     == _get_cached(_CACHE, cache_key, now)
        called     == IF UseModel THEN cls ELSE "not_called"
        matches    == IF bad = {}
                      THEN matches_of[text, GATING_KEYWORDS]
                      ELSE FindKeywordMatchesWith(normalized, GATING_KEYWORDS, bad)
        decision   == _evaluate_matches(matches)
    IN  IF Falsy(text) \/ GatingBypassed(force)
        THEN [obs |-> Obs(op, text, TRUE, <<>>, FALSE, FALSE, "not_called",
                          FALSE, FALSE),
              cache |-> _CACHE,
              classifier |-> FALSE]
        ELSE IF cached.hit
        THEN [obs |-> Obs(op, text, cached.decision, <<>>, TRUE, TRUE,
                          "not_called", FALSE, FALSE),
              cache |-> cached.cache,
              classifier |-> FALSE]
        ELSE IF UseModel /\ cls \in {"True", "False"}
        THEN [obs |-> Obs(op, text, cls = "True", <<>>, TRUE, FALSE, cls,
                          FALSE, TRUE),
              cache |-> _set_cached(cached.cache, cache_key, cls = "True", now),
              classifier |-> TRUE]
        ELSE IF UseModel /\ cls = "raise" /\ ~ExceptException("classifier")
        THEN [obs |-> Propagated(Obs(op, text, FALSE, <<>>, TRUE, FALSE, cls,
                                     FALSE, FALSE)),
              cache |-> cached.cache,
              classifier |-> TRUE]
        ELSE IF UseModel /\ NoFallback
        THEN [obs |-> Obs(op, text, GATING_DEFAULT_ON_ERROR, <<>>, TRUE, FALSE,
                          cls, FALSE, FALSE),
              cache |-> cached.cache,
              classifier |-> TRUE]
        ELSE IF kw = "raise" /\ ~ExceptException("keywords")
        THEN [obs |-> [Propagated(Obs(op, text, FALSE, <<>>, TRUE, FALSE, called,
                                      TRUE, FALSE)) EXCEPT !.kwerror = TRUE],
              cache |-> cached.cache,
              classifier |-> UseModel]
        ELSE IF kw = "raise"
        THEN [obs |-> [Obs(op, text, GATING_DEFAULT_ON_ERROR, <<>>, TRUE, FALSE,
                           called, TRUE, FALSE) EXCEPT !.kwerror = TRUE],
              cache |-> cached.cache,
              classifier |-> UseModel]
        ELSE [obs |-> [Obs(op, text, decision, matches, TRUE, FALSE, called,
                           TRUE, TRUE) EXCEPT !.bad = bad],
              cache |-> _set_cached(cached.cache, cache_key, decision, now),
              classifier |-> UseModel]

\* should_summarize_with_matches in a call where nothing but the classifier
\* can fail
should_summarize_with_matches(text, force, cls) ==
    Decide(text, force, cls, "none", {})

should_summarize(text, cls) ==
    LET op         == "bool"
        normalized == normalized_of[text]
        cache_key  == _cache_key(normalized)
        called     == IF UseModel THEN cls ELSE "not_called"
        cached     == _get_cached(_CACHE, cache_key, now)
        matches    == matches_of[text, GATING_KEYWORDS]
        decision   == _evaluate_matches(matches)
    IN  IF ~ENABLE_GATING \/ Falsy(text)
        THEN [obs |-> Obs(op, text, TRUE, <<>>, FALSE, FALSE, "not_called",
                          FALSE, FALSE),
              cache |-> _CACHE,
              classifier |-> FALSE]
        ELSE IF UseModel /\ cls \in {"True", "False"}
        THEN [obs |-> Obs(op, text, cls = "True", <<>>, FALSE, FALSE, cls,
                          FALSE, FALSE),
              cache |-> _CACHE,
              classifier |-> TRUE]
        ELSE IF UseModel /\ cls = "raise" /\ ~ExceptException("classifier")
        THEN [obs |-> Propagated(Obs(op, text, FALSE, <<>>, FALSE, FALSE, cls,
                                     FALSE, FALSE)),
              cache |-> _CACHE,
              classifier |-> TRUE]
        ELSE IF UseModel /\ cls = "raise" /\ NoFallback
        THEN [obs |-> Obs(op, text, GATING_DEFAULT_ON_ERROR, <<>>, FALSE, FALSE,
                          cls, FALSE, FALSE),
              cache |-> _CACHE,
              classifier |-> TRUE]
        ELSE IF UnsupportedStrategy
        THEN [obs |-> Obs(op, text, TRUE, <<>>, FALSE, FALSE, called,
                          FALSE, FALSE),
              cache |-> _CACHE,
              classifier |-> UseModel]
        ELSE IF cached.hit
        THEN [obs |-> Obs(op, text, cached.decision, <<>>, TRUE, TRUE, called,
                          FALSE, FALSE),
              cache |-> cached.cache,
              classifier |-> UseModel]
        ELSE [obs |-> Obs(op, text, decision, <<>>, TRUE, FALSE, called,
                          TRUE, TRUE),
              cache |-> _set_cached(cached.cache, cache_key, decision, now),
              classifier |-> UseModel]

\* the values of `force` the repository's callers pass: news.py calls
\* should_summarize_with_matches(article_text), and nothing passes force=True
ForceValues == {FALSE}

\* one call completes: the state it leaves
Complete(r, cls) ==
    /\ r.classifier <=> cls \in ClassifierOutcomes
    /\ _CACHE' = r.cache
    /\ UNCHANGED now
    /\ last' = r.obs
    /\ UNCHANGED <<config, sum_vars, lock_vars, news_vars>>

CallShouldSummarizeWithMatches ==
    \E text \in Texts, force \in ForceValues, cls \in ClassifierInputs :
        Complete(should_summarize_with_matches(text, force, cls), cls)

CallShouldSummarize ==
    \E text \in Texts, cls \in ClassifierInputs :
        Complete(should_summarize(text, cls), cls)

\* the monotonic clock advances between calls
Tick ==
    /\ now < MaxTime
    /\ now' = now + 1
    /\ UNCHANGED <<config, _CACHE, last, sum_vars, lock_vars, news_vars>>

Next == CallShouldSummarizeWithMatches \/ CallShouldSummarize \/ Tick

Spec == Init /\ [][Next]_vars

(***************************************************************************)
(* Properties.  Decide is should_summarize_with_matches; `last` observes   *)
(* the most recent call, and in a step that is a call `last` is the call   *)
(* before it and last' the call itself.                                    *)
(***************************************************************************)
IsDecide(o) == o.op = "with_matches"
Called(o) == o.op # "none"
\* the classifier or the keyword path ran in the call
Evaluated(o) == o.cls # "not_called" \/ o.scanned
Indeterminate(o) == o.cls \in {"None", "raise"}
KeyOf(text) == _cache_key(normalized_of[text])
Entry(t, decision) == [expires_at |-> t + GATING_CACHE_TTL_SECONDS, decision |-> decision]
match_mode == Lower(GATING_MATCH_MODE)

\* a step in which Decide is called again with the text of the Decide call
\* before it, less than TTL after that call
RepeatedDecide ==
    /\ GATING_CACHE_TTL_SECONDS > 0
    /\ now' = now
    /\ IsDecide(last) /\ IsDecide(last')
    /\ last'.text = last.text
    /\ last'.at < last.at + GATING_CACHE_TTL_SECONDS

\* the second call returned what the first did, and evaluated nothing
SameAndNotEvaluated == last'.allowed = last.allowed /\ ~Evaluated(last')

\* C1 as claimed: for TTL > 0 two successive Decide calls with identical text
\* inside the TTL window return the same allowed value, and the second one
\* calls no classifier and scans no keywords, whatever the first one did.
C1_RepeatIsAlwaysPureHit == [][RepeatedDecide => SameAndNotEvaluated]_vars

\* C1 amended: the same, for a first call that stored the decision it took
\* (classifier true/false, or keyword evaluation) or that returned before the
\* cache (empty text, gating disabled); then the second call is a cache hit
\* unless the first returned before the cache.
C1_RepeatAfterStoreIsPureHit ==
    [][(RepeatedDecide /\ (last.stored \/ ~last.lookup))
        => (SameAndNotEvaluated /\ (last.stored => last'.hit))]_vars

C1_Witness ==
    /\ GATING_CACHE_TTL_SECONDS > 0
    /\ IsDecide(last) /\ last.repeat /\ last.hit
    /\ last.text = T_inflacion /\ ~last.allowed
    /\ last.at > 0

\* C2: with gating disabled every Decide call (and every should_summarize
\* call) returns allowed with no matches, does not call _get_cached,
\* _set_cached or the classifier, and leaves the cache as it was.
C2_DisabledAllowsEverything ==
    [][(~ENABLE_GATING /\ Called(last'))
        => /\ last'.allowed /\ last'.matches = <<>>
           /\ ~last'.lookup /\ ~last'.stored /\ ~Evaluated(last')
           /\ _CACHE' = _CACHE]_vars

\* a text matching every keyword of a deny list went through
C2_Witness ==
    /\ ~ENABLE_GATING
    /\ IsDecide(last)
    /\ match_mode = S_deny_if_any
    /\ GATING_KEYWORDS = <<K_inflacion>>
    /\ last.text = T_inflacion
    /\ last.allowed

\* C3: a classifier answer of true makes Decide allow and an answer of false
\* makes it deny, with no matches, and for TTL > 0 the cache holds that
\* decision under the text's key, expiring TTL after the call.
C3_ModelDecisionReturnedAndCached ==
    (IsDecide(last) /\ last.cls \in {"True", "False"})
        => /\ UseModel
           /\ last.allowed = (last.cls = "True")
           /\ last.matches = <<>>
           /\ GATING_CACHE_TTL_SECONDS > 0
                => /\ KeyOf(last.text) \in DOMAIN _CACHE
                   /\ _CACHE[KeyOf(last.text)] = Entry(last.at, last.allowed)

C3_Witness ==
    /\ IsDecide(last) /\ last.cls = "False" /\ ~last.allowed
    /\ GATING_CACHE_TTL_SECONDS > 0
    /\ KeyOf(last.text) \in DOMAIN _CACHE
    /\ now > last.at

\* a Decide call in which the classifier was indeterminate and fallback to
\* keywords is disabled
DefaultOnErrorCall == IsDecide(last') /\ Indeterminate(last') /\ NoFallback /\ now' = now

\* C4 as claimed: such a call returns default_on_error with no matches and
\* leaves the cache unchanged.
C4_DefaultLeavesCacheUnchanged ==
    [][DefaultOnErrorCall
        => /\ last'.allowed = GATING_DEFAULT_ON_ERROR /\ last'.matches = <<>>
           /\ _CACHE' = _CACHE]_vars

\* C4 amended: such a call returns default_on_error with no matches and
\* writes no entry; the cache is unchanged except that the lookup has removed
\* the entry of this text's key if it had expired.
C4_DefaultWritesNoEntry ==
    [][DefaultOnErrorCall
        => LET key == KeyOf(last'.text) IN
           /\ last'.allowed = GATING_DEFAULT_ON_ERROR /\ last'.matches = <<>>
           /\ ~last'.stored
           /\ key \notin DOMAIN _CACHE'
           /\ \/ _CACHE' = _CACHE
              \/ /\ key \in DOMAIN _CACHE
                 /\ _CACHE[key].expires_at <= now
                 /\ _CACHE' = [k \in DOMAIN _CACHE \ {key} |-> _CACHE[k]]]_vars

C4_Witness ==
    /\ IsDecide(last) /\ Indeterminate(last) /\ NoFallback
    /\ ~GATING_DEFAULT_ON_ERROR /\ ~last.allowed
    /\ GATING_CACHE_TTL_SECONDS > 0
    /\ DOMAIN _CACHE # {}
    /\ KeyOf(last.text) \notin DOMAIN _CACHE

\* C5: when the classifier is indeterminate and fallback to keywords is
\* enabled, Decide returns the decision and the matches of the keyword path
\* and caches that decision; a text containing the configured keyword
\* "mercosur" is allowed with that match under allow_if_any.
C5_IndeterminateFallsBackToKeywords ==
    (IsDecide(last) /\ Indeterminate(last) /\ ~NoFallback)
        => /\ UseModel
           /\ last.scanned
           /\ last.matches = _find_keyword_matches(_normalize_text(last.text), GATING_KEYWORDS)
           /\ last.allowed = _evaluate_matches(last.matches)
           /\ GATING_CACHE_TTL_SECONDS > 0
                => /\ KeyOf(last.text) \in DOMAIN _CACHE
                   /\ _CACHE[KeyOf(last.text)] = Entry(last.at, last.allowed)
           /\ (/\ last.text = T_mercosur
               /\ match_mode = S_allow_if_any
               /\ K_mercosur \in Range(GATING_KEYWORDS))
                => last.allowed /\ K_mercosur \in Range(last.matches)

C5_Witness ==
    /\ IsDecide(last) /\ last.cls = "None" /\ ~NoFallback
    /\ last.text = T_mercosur
    /\ match_mode = S_allow_if_any
    /\ last.allowed /\ last.matches = <<K_mercosur>>
    /\ GATING_CACHE_TTL_SECONDS > 0

\* a Decide call that ran the keyword path
KeywordPath == IsDecide(last) /\ last.scanned

\* C6: with keywords configured and a recognized match mode, allow_if_any
\* allows iff a keyword matched and deny_if_any allows iff none did, so the
\* two modes decide every match list oppositely; with keywords ["inflacion"]
\* and allow_if_any, "La inflacion subio este mes" gives (true,
\* ["inflacion"]) and "El clima estuvo soleado" gives (false, []).
C6_MatchModesDecide ==
    (KeywordPath /\ GATING_KEYWORDS # <<>> /\ match_mode \in _ALLOWED_MATCH_MODES)
        => /\ match_mode = S_allow_if_any => (last.allowed <=> last.matches # <<>>)
           /\ match_mode = S_deny_if_any => (last.allowed <=> last.matches = <<>>)
           /\ EvaluateMatchesWith(GATING_KEYWORDS, S_allow_if_any, last.matches)
                # EvaluateMatchesWith(GATING_KEYWORDS, S_deny_if_any, last.matches)
           /\ (GATING_KEYWORDS = <<K_inflacion>> /\ match_mode = S_allow_if_any)
                => /\ last.text = T_inflacion
                        => last.allowed /\ last.matches = <<K_inflacion>>
                   /\ last.text = T_clima
                        => ~last.allowed /\ last.matches = <<>>

C6_Witness ==
    /\ KeywordPath /\ last.cls = "not_called"
    /\ GATING_KEYWORDS = <<K_inflacion>> /\ GATING_MATCH_MODE = RawAllow
    /\ last.text = T_inflacion
    /\ last.allowed /\ last.matches = <<K_inflacion>>

\* C7: with no keywords configured, or a match mode that is neither
\* allow_if_any nor deny_if_any, the keyword path allows, whatever matched.
C7_KeywordPathFailsOpen ==
    (KeywordPath /\ (GATING_KEYWORDS = <<>> \/ match_mode \notin _ALLOWED_MATCH_MODES))
        => last.allowed

C7_Witness ==
    /\ KeywordPath
    /\ GATING_KEYWORDS # <<>> /\ GATING_MATCH_MODE = RawAllowPadded
    /\ last.matches = <<>>
    /\ last.allowed

\* C8: with a strategy that is neither model nor keywords, every call with a
\* non-empty text is allowed.
C8_UnknownStrategyAllows ==
    (Called(last) /\ UnsupportedStrategy /\ ~Falsy(last.text)) => last.allowed

\* C9: for TTL <= 0 the cache is always empty, no lookup hits, and every
\* Decide call that gets past the empty-text and gating-disabled returns
\* evaluates (classifier or keywords), a repeated one like any other.
C9_NoCachingWithoutTTL ==
    GATING_CACHE_TTL_SECONDS <= 0
        => /\ DOMAIN _CACHE = {}
           /\ ~last.hit
           /\ (IsDecide(last) /\ ~Falsy(last.text) /\ ENABLE_GATING) => Evaluated(last)

C9_Witness ==
    /\ GATING_CACHE_TTL_SECONDS = 0
    /\ IsDecide(last) /\ last.repeat /\ last.stored
    /\ Evaluated(last)
    /\ DOMAIN _CACHE = {}

\* C10: an empty or absent text is allowed with no matches in every
\* configuration, without a call of _get_cached, _set_cached or the
\* classifier, and the cache stays as it was.
C10_EmptyTextAllowed ==
    [][(Called(last') /\ (last'.text = None \/ last'.text = <<>>))
        => /\ last'.allowed /\ last'.matches = <<>>
           /\ ~last'.lookup /\ ~last'.stored /\ ~Evaluated(last')
           /\ _CACHE' = _CACHE]_vars

C10_Witness ==
    /\ IsDecide(last) /\ last.text = <<>>
    /\ ENABLE_GATING /\ UseModel
    /\ last.allowed
    /\ DOMAIN _CACHE # {}

\* a step that is a call which looked its text up in the cache
LookupCall == now' = now /\ Called(last') /\ last'.lookup

\* C17: a lookup hits only an entry whose expiry (the time it was written
\* plus TTL) is strictly after the lookup's clock, and returns that entry's
\* decision; a lookup at or after the expiry of the entry of its key misses
\* and removes that entry: the key is then absent unless the same call has
\* stored its fresh decision.
C17_HitOnlyBeforeExpiry ==
    [][LookupCall
        => LET key == KeyOf(last'.text) IN
           /\ last'.hit
                => /\ key \in DOMAIN _CACHE
                   /\ now < _CACHE[key].expires_at
                   /\ _CACHE[key].expires_at - GATING_CACHE_TTL_SECONDS \in 0..now
                   /\ last'.allowed = _CACHE[key].decision
           /\ (key \in DOMAIN _CACHE /\ now >= _CACHE[key].expires_at)
                => /\ ~last'.hit
                   /\ \/ key \notin DOMAIN _CACHE'
                      \/ last'.stored /\ _CACHE'[key] = Entry(now, last'.allowed)]_vars

\* without a classifier every Decide call stores or hits, so the call before
\* this one left an entry for the text, and this call found it expired
C17_Witness ==
    /\ strategy = S_keywords /\ GATING_CACHE_TTL_SECONDS = 2
    /\ IsDecide(last) /\ last.repeat
    /\ last.at = 2 /\ ~last.hit /\ last.stored

\* C18: a step changes no entry of a key other than the key of the call's
\* text; a cache hit leaves the whole cache as it was (no renewal of the
\* expiry); the entry of the call's key changes only by the store of the
\* call's fresh decision or by its removal once expired.
C18_EntriesImmutable ==
    [][LET key == KeyOf(last'.text) IN
       /\ \A k \in (DOMAIN _CACHE \cup DOMAIN _CACHE') \ {key} :
            k \in DOMAIN _CACHE /\ k \in DOMAIN _CACHE' /\ _CACHE'[k] = _CACHE[k]
       /\ last'.hit => _CACHE' = _CACHE
       /\ _CACHE' # _CACHE
            => \/ /\ last'.stored
                  /\ key \in DOMAIN _CACHE'
                  /\ _CACHE'[key] = Entry(now, last'.allowed)
               \/ /\ key \in DOMAIN _CACHE
                  /\ _CACHE[key].expires_at <= now
                  /\ key \notin DOMAIN _CACHE']_vars

C18_Witness ==
    /\ IsDecide(last) /\ last.hit /\ last.at = 1
    /\ Cardinality(DOMAIN _CACHE) = 2
    /\ \E k \in DOMAIN _CACHE : _CACHE[k].expires_at = 2
    /\ \E k \in DOMAIN _CACHE : _CACHE[k].expires_at = 3

\* a step that is a Decide call
DecideCall == now' = now /\ IsDecide(last')

\* C23: a Decide call calls the classifier only when the strategy is "model"
\* and model-based gating is enabled, for a non-empty text with gating on,
\* and only after its lookup missed: the cache held no unexpired entry of the
\* text's key; with another strategy, or model gating disabled, no Decide
\* call calls it.  What the classifier is given is the text as Decide
\* received it, not the normalized text, and the prompt carries its first
\* ClassifierBudget characters and no more.
C23_ClassifierOnlyOnModelMiss ==
    [][DecideCall
        => LET key  == KeyOf(last'.text)
               text == last'.text
               n    == IF Len(text) < ClassifierBudget THEN Len(text)
                       ELSE ClassifierBudget
           IN  /\ last'.cls # "not_called"
                    => /\ USE_MODEL_BASED_GATING /\ strategy = S_model
                       /\ ENABLE_GATING /\ ~Falsy(text)
                       /\ last'.lookup /\ ~last'.hit
                       /\ key \in DOMAIN _CACHE => _CACHE[key].expires_at <= now
                       /\ Len(last'.sent) = n
                       /\ \A i \in 1..n : last'.sent[i] = text[i]
               /\ (~USE_MODEL_BASED_GATING \/ strategy # S_model)
                    => last'.cls = "not_called" /\ last'.sent = None]_vars

\* the classifier was called for a text longer than the budget, whose
\* normalized form differs from it, while the cache held another text's entry
C23_Witness ==
    /\ IsDecide(last) /\ last.cls = "False"
    /\ last.text = T_mercosur
    /\ Len(last.sent) = ClassifierBudget /\ Len(last.text) > ClassifierBudget
    /\ last.sent # Prefix(normalized_of[last.text], ClassifierBudget)
    /\ Cardinality(DOMAIN _CACHE) = 2

\* C25: from any cache state and configuration and for any behaviour of the
\* classifier, should_summarize(text) returns the decision that
\* should_summarize_with_matches(text) returns, calls the classifier exactly
\* when it does, and leaves the cache it leaves.
C25_BoolViewOfDecide ==
    \A text \in Texts, cls \in ClassifierOutcomes :
        LET b == should_summarize(text, cls)
            w == should_summarize_with_matches(text, FALSE, cls)
        IN  /\ b.obs.allowed = w.obs.allowed
            /\ b.classifier = w.classifier
            /\ b.cache = w.cache

(***************************************************************************)
(* Decide with a failing environment: the keyword evaluation can raise,    *)
(* a pattern can raise re.error, the classifier can raise.  The texts and  *)
(* keywords are those of the keyword scan.                                 *)
(***************************************************************************)
FaultConfigs ==
    {c \in [enable : {TRUE}, strategy : {RawKeywords, RawModelPadded},
            mode : {RawAllow, RawDenyCaps}, keywords : MatchKeywordLists,
            default : BOOLEAN, ttl : {0, 2},
            use_model : {TRUE}, fallback : BOOLEAN] :
        strategy_of[c.strategy] # S_model => c.fallback}

InitFaults ==
    /\ \E c \in FaultConfigs :
        /\ ENABLE_GATING = c.enable
        /\ GATING_STRATEGY = c.strategy
        /\ GATING_MATCH_MODE = c.mode
        /\ GATING_KEYWORDS = c.keywords
        /\ GATING_DEFAULT_ON_ERROR = c.default
        /\ GATING_CACHE_TTL_SECONDS = c.ttl
        /\ USE_MODEL_BASED_GATING = c.use_model
        /\ MODEL_BASED_GATING_FALLBACK_TO_KEYWORDS = c.fallback
    /\ _CACHE = EmptyCache
    /\ now = 0
    /\ last = NoCall
    /\ SummarizeIdle
    /\ ThreadsIdle
    /\ NewsIdle

CallDecide ==
    \E text \in MatchTexts \cup {None, <<>>}, cls \in ClassifierInputs,
       kw \in KeywordFaults, bad \in BadTokenSets :
        LET r == Decide(text, FALSE, cls, kw, bad) IN
        /\ bad \subseteq Range(GATING_KEYWORDS)
        /\ kw = "raise" => r.obs.kwerror
        /\ bad # {} => r.obs.bad = bad
        /\ Complete(r, cls)

NextFaults == CallDecide

SpecFaults == InitFaults /\ [][NextFaults]_vars

\* the normalized text the call searched
Searched(o) == normalized_of[o.text]

\* C14: no Decide call ends in an exception: whatever the text, the
\* classifier (true, false, None, raise) and the keyword evaluation do, the
\* call returns a boolean and a list; and in every state a call in which the
\* classifier raises returns and leaves exactly what the same call with a
\* classifier answer of None does.
C14_NoErrorEscapesDecide ==
    /\ IsDecide(last)
        => /\ ~last.raised
           /\ last.allowed \in BOOLEAN
           /\ last.matches \in Seq(Range(GATING_KEYWORDS))
    /\ \A text \in MatchTexts :
        LET raised == Decide(text, FALSE, "raise", "none", {})
            none   == Decide(text, FALSE, "None", "none", {})
        IN  /\ ~raised.obs.raised
            /\ raised.cache = none.cache
            /\ [raised.obs EXCEPT !.cls = "-"] = [none.obs EXCEPT !.cls = "-"]
            /\ raised.obs.cls = "raise" <=> none.obs.cls = "None"

C14_Witness ==
    /\ IsDecide(last) /\ last.cls = "raise" /\ ~last.raised
    /\ ~NoFallback /\ last.matches # <<>>
    /\ DOMAIN _CACHE # {}

\* a step that is a Decide call whose keyword evaluation raised
KeywordErrorCall == IsDecide(last') /\ last'.kwerror

\* a step that is a Decide call in which the pattern of some keyword raised
\* re.error and nothing else failed
PatternErrorCall == IsDecide(last') /\ last'.scanned /\ ~last'.kwerror /\ last'.bad # {}

\* C15: a Decide call whose keyword evaluation raises returns
\* default_on_error with no matches and adds or changes no cache entry; a
\* call in which only the pattern of a keyword raises matches that keyword
\* as a substring and matches every other keyword as it would have without
\* the error.
C15_KeywordErrorGivesDefault ==
    [][/\ KeywordErrorCall
            => /\ ~last'.raised
               /\ last'.allowed = GATING_DEFAULT_ON_ERROR
               /\ last'.matches = <<>>
               /\ ~last'.stored
               /\ \A k \in DOMAIN _CACHE' : k \in DOMAIN _CACHE /\ _CACHE'[k] = _CACHE[k]
       /\ PatternErrorCall
            => LET text == Searched(last')
                   sure(k) == k \notin last'.bad
               IN  /\ \A b \in last'.bad :
                        b \in Range(last'.matches) <=> IsSubstring(b, text)
                   /\ SelectSeq(last'.matches, sure)
                        = SelectSeq(_find_keyword_matches(text, GATING_KEYWORDS), sure)
                   /\ last'.allowed = _evaluate_matches(last'.matches)]_vars

C15_Witness ==
    /\ IsDecide(last) /\ last.kwerror /\ ~last.raised
    /\ ~GATING_DEFAULT_ON_ERROR /\ ~last.allowed
    /\ GATING_CACHE_TTL_SECONDS > 0 /\ DOMAIN _CACHE # {}
    /\ KeyOf(last.text) \notin DOMAIN _CACHE

\* the pattern of "estado" raised, "estadocracia" matched it as a substring
\* and the scan went on to "banco central"
C15_PatternErrorReached ==
    /\ IsDecide(last) /\ last.bad = {K_estado}
    /\ last.text = T_estadocracia
    /\ GATING_KEYWORDS = <<K_estado, K_banco_central>>
    /\ last.matches = <<K_estado>>

\* token occurs in text with no word character next to it on either side
DelimitedOccurrence(token, text) ==
    \E i \in 1..(Len(text) - Len(token) + 1) :
        /\ SubSeq(text, i, i + Len(token) - 1) = token
        /\ i = 1 \/ ~IsWordChar(text[i - 1])
        /\ i + Len(token) > Len(text) \/ ~IsWordChar(text[i + Len(token)])

\* a Decide call whose keyword scan ran with no error of any kind
CleanScan == IsDecide(last) /\ last.scanned /\ ~last.kwerror /\ last.bad = {}

\* C19: every keyword in the match list occurs in the normalized text
\* delimited by non-word characters or the ends of the text; "estado" is not
\* matched in "La estadocracia y un estadoXYZ" and is matched in "El Estado
\* uruguayo"; "banco central" is matched in "El Banco Central, el estado y el
\* estado" and not in "Otro banco nacional central".
C19_WholeWordMatching ==
    CleanScan
        => /\ \A i \in 1..Len(last.matches) :
                DelimitedOccurrence(last.matches[i], Searched(last))
           /\ K_estado \in Range(GATING_KEYWORDS)
                => /\ last.text = T_estadocracia => K_estado \notin Range(last.matches)
                   /\ last.text = T_estado => K_estado \in Range(last.matches)
           /\ K_banco_central \in Range(GATING_KEYWORDS)
                => /\ last.text = T_banco => K_banco_central \in Range(last.matches)
                   /\ last.text = T_banco_split
                        => K_banco_central \notin Range(last.matches)

C19_Witness ==
    /\ CleanScan
    /\ last.text = T_banco
    /\ last.matches = <<K_estado, K_banco_central>>

\* C20: the match list of the keyword path has no keyword twice, lists the
\* matched keywords in the order of the configured list, and lists no keyword
\* that did not match.
C20_MatchesAreOrderedSet ==
    CleanScan
        => /\ \A i, j \in 1..Len(last.matches) :
                last.matches[i] = last.matches[j] => i = j
           /\ \A i \in 1..Len(last.matches) :
                /\ last.matches[i] \in Range(GATING_KEYWORDS)
                /\ DelimitedOccurrence(last.matches[i], Searched(last))
           /\ \A i, j \in 1..Len(last.matches) :
                i < j => \E a, b \in 1..Len(GATING_KEYWORDS) :
                            /\ a < b
                            /\ GATING_KEYWORDS[a] = last.matches[i]
                            /\ GATING_KEYWORDS[b] = last.matches[j]

(***************************************************************************)
(* ai_services.py: get_ai_summary and get_audio_summary.  A call is a      *)
(* process: the early return, the Responses API attempt, the chat          *)
(* completion attempt.  What the two remote calls do is the input of the   *)
(* step that makes them.                                                   *)
(***************************************************************************)
\* text[:6000] of get_ai_summary and text[:4000] of get_audio_summary, scaled
\* to the length of the model's texts
ArticleBudget == 3
AudioBudget == 2

SummaryFunctions == {"get_ai_summary", "get_audio_summary"}

A_short == <<"a">>
A_medium == <<"a", "b", "c">>
A_long == <<"a", "b", "c", "d", "e">>
SummaryTexts == {None, <<>>, A_short, A_medium, A_long}

R_si == <<"S", "i">>
R_no == <<"N", "o">>
R_padded == <<" ", "S", "i", " ">>
R_blank == <<" ", " ">>

Item(text, content) == [text |-> text, content |-> content]
Part(text) == [text |-> text]
Responded(response) == [made |-> TRUE, raises |-> FALSE, response |-> response]
PrimaryRaises == [made |-> TRUE, raises |-> TRUE, response |-> NoResponse]
PrimaryReplies ==
    { PrimaryRaises,
      Responded([output_text |-> R_si, output |-> <<>>]),
      Responded([output_text |-> R_padded, output |-> <<>>]),
      Responded([output_text |-> R_blank, output |-> <<>>]),
      Responded([output_text |-> None, output |-> <<>>]),
      Responded([output_text |-> <<>>,
                 output |-> << Item(None, << Part(<<>>), Part(R_no) >>) >>]),
      Responded([output_text |-> None,
                 output |-> << Item(None, <<>>), Item(R_si, <<>>) >>]),
      Responded([output_text |-> None,
                 output |-> << Item(None, << Part(None) >>) >>]) }

Completed(choices) == [made |-> TRUE, raises |-> FALSE, choices |-> choices]
SecondaryRaises == [made |-> TRUE, raises |-> TRUE, choices |-> <<>>]
Choice(content) == [content |-> content]
SecondaryReplies ==
    { SecondaryRaises,
      Completed(<<>>),
      Completed(<< Choice(None) >>),
      Completed(<< Choice(<<>>) >>),
      Completed(<< Choice(R_si), Choice(R_no) >>),
      Completed(<< Choice(R_padded) >>) }

\* truth value of a str | None
Truthy(value) == value # None /\ value # <<>>

\* the inner loop of _extract_text_from_openai_response: the first part of
\* content with a text
RECURSIVE FirstPartText(_)
FirstPartText(content) ==
    IF content = <<>> THEN None
    ELSE IF Truthy(Head(content).text) THEN Head(content).text
    ELSE FirstPartText(Tail(content))

\* the outer loop: the first item with a text, or with a part that has one
RECURSIVE FirstItemText(_)
FirstItemText(output) ==
    IF output = <<>> THEN None
    ELSE LET item == Head(output)
             part == FirstPartText(item.content)
         IN  IF Truthy(item.text) THEN item.text
             ELSE IF Len(item.content) > 0 /\ Truthy(part) THEN part
             ELSE FirstItemText(Tail(output))

\* the structured output read before the consolidated text
_extract_text_output_first(response) ==
    IF Len(response.output) > 0 /\ Truthy(FirstItemText(response.output))
    THEN FirstItemText(response.output)
    ELSE IF Truthy(response.output_text) THEN response.output_text
    ELSE None

_extract_text_from_openai_response(response) ==
    IF Truthy(response.output_text) THEN response.output_text
    ELSE IF Len(response.output) > 0 THEN FirstItemText(response.output)
    ELSE None

system_prompt(fn) ==
    IF fn = "get_ai_summary" THEN "analista politico" ELSE "resumenes para locucion"

user_prompt(fn, text) ==
    IF fn = "get_ai_summary"
    THEN <<"Article:\n">> \o Prefix(text, ArticleBudget)
    ELSE <<"Texto original:\n">> \o Prefix(text, AudioBudget)

\* the arguments of responses.create
PrimaryCall(fn, text) ==
    [api |-> "responses.create",
     model |-> IF fn = "get_ai_summary"
               THEN "TEXT_SUMMARY_MODEL_PRIMARY" ELSE "AUDIO_SUMMARY_MODEL",
     instructions |-> system_prompt(fn),
     input |-> user_prompt(fn, text)]

\* the arguments of chat.completions.create
SecondaryCall(fn, text) ==
    [api |-> "chat.completions.create",
     model |-> "TEXT_SUMMARY_MODEL_FALLBACK",
     instructions |-> system_prompt(fn),
     input |-> user_prompt(fn, text)]

\* summary_text after the first try block: None when the call or the
\* extraction raised
primary_text(reply) ==
    IF reply.raises THEN None
    ELSE _extract_text_from_openai_response(reply.response)

\* `if summary_text:` never taken
PrimaryUsable_never(summary_text) == FALSE

\* `if summary_text:` (lines 75, 119)
PrimaryUsable(summary_text) == Truthy(summary_text)

\* the second try block returning "" from its except clause
secondary_return_empty(reply) ==
    IF reply.raises \/ reply.choices = <<>> THEN <<>>
    ELSE reply.choices[1].content

\* the second try block: completion.choices[0].message.content, None when the
\* call raised or choices is empty (IndexError)
secondary_return(reply) ==
    IF reply.raises \/ reply.choices = <<>> THEN None
    ELSE reply.choices[1].content

\* the gating engine takes no step in this specification
GatingAtRest ==
    /\ ENABLE_GATING = TRUE
    /\ GATING_STRATEGY = RawKeywords
    /\ GATING_MATCH_MODE = RawAllow
    /\ GATING_KEYWORDS = <<>>
    /\ GATING_DEFAULT_ON_ERROR = TRUE
    /\ GATING_CACHE_TTL_SECONDS = 0
    /\ USE_MODEL_BASED_GATING = TRUE
    /\ MODEL_BASED_GATING_FALLBACK_TO_KEYWORDS = TRUE
    /\ _CACHE = EmptyCache
    /\ now = 0
    /\ last = NoCall

gating_vars == <<config, _CACHE, now, last>>

InitSummarize == GatingAtRest /\ SummarizeIdle /\ ThreadsIdle /\ NewsIdle

\* the call and `if not text or not openai_client: return None`
SummarizeEnter ==
    /\ s_pc = "idle"
    /\ \E fn \in SummaryFunctions, text \in SummaryTexts, client \in BOOLEAN :
        /\ s_fn' = fn
        /\ s_text' = text
        /\ s_client' = client
        /\ s_pc' = IF Falsy(text) \/ ~client THEN "done" ELSE "primary"
    /\ UNCHANGED <<s_calls, s_primary, s_secondary, s_result, gating_vars, lock_vars, news_vars>>

\* the first try block
PrimaryAttempt ==
    /\ s_pc = "primary"
    /\ \E reply \in PrimaryReplies :
        LET summary_text == primary_text(reply) IN
        /\ s_calls' = Append(s_calls, PrimaryCall(s_fn, s_text))
        /\ s_primary' = reply
        /\ IF PrimaryUsable(summary_text)
           THEN s_result' = Strip(summary_text) /\ s_pc' = "done"
           ELSE s_result' = s_result /\ s_pc' = "secondary"
    /\ UNCHANGED <<s_fn, s_text, s_client, s_secondary, gating_vars, lock_vars, news_vars>>

\* the second try block
SecondaryAttempt ==
    /\ s_pc = "secondary"
    /\ \E reply \in SecondaryReplies :
        /\ s_calls' = Append(s_calls, SecondaryCall(s_fn, s_text))
        /\ s_secondary' = reply
        /\ s_result' = secondary_return(reply)
        /\ s_pc' = "done"
    /\ UNCHANGED <<s_fn, s_text, s_client, s_primary, gating_vars, lock_vars, news_vars>>

NextSummarize == SummarizeEnter \/ PrimaryAttempt \/ SecondaryAttempt

SpecSummarize == InitSummarize /\ [][NextSummarize]_vars

\* the apis called so far, in order
Attempts == [i \in 1..Len(s_calls) |-> s_calls[i].api]

\* the call raised (for the secondary call also: it returned no choice, and
\* choices[0] raised IndexError)
PrimaryFailed == s_primary.made /\ s_primary.raises
SecondaryFailed == s_secondary.made /\ (s_secondary.raises \/ s_secondary.choices = <<>>)

\* C11: when the primary call failed (it raised, or gave no text) and the
\* secondary call raised, the summary call returns None having made exactly
\* the two calls, responses.create and then chat.completions.create.
C11_BothFailReturnsAbsentAfterTwo ==
    (s_pc = "done" /\ (PrimaryFailed \/ s_primary.made) /\ SecondaryFailed)
        => /\ s_result = None
           /\ Attempts = <<"responses.create", "chat.completions.create">>

C11_Witness ==
    /\ s_pc = "done" /\ PrimaryFailed /\ SecondaryFailed /\ s_secondary.raises
    /\ s_result = None /\ Len(s_calls) = 2

\* the text extracted from the primary reply, and whether there is one
Extracted == _extract_text_from_openai_response(s_primary.response)
PrimaryGaveText == s_primary.made /\ ~s_primary.raises /\ Truthy(Extracted)

\* the calls made: at most two, the second only after a primary call that
\* raised or gave no text, with the instructions and the input of the first,
\* the input being the prompt over the truncated text
CallsAsClaimed ==
    /\ Len(s_calls) <= 2
    /\ s_pc = "done" /\ s_primary.made
        => /\ PrimaryGaveText => Attempts = <<"responses.create">>
           /\ ~PrimaryGaveText
                => Attempts = <<"responses.create", "chat.completions.create">>
    /\ \A i \in 1..Len(s_calls) :
        /\ s_calls[i].instructions = s_calls[1].instructions
        /\ s_calls[i].input = s_calls[1].input
        /\ Len(s_calls[i].input)
            <= 1 + (IF s_fn = "get_ai_summary" THEN ArticleBudget ELSE AudioBudget)
        /\ SubSeq(s_calls[i].input, 2, Len(s_calls[i].input))
            = SubSeq(s_text, 1, Len(s_calls[i].input) - 1)

\* C12 as claimed: when text is extracted from the primary reply, that text
\* is what the call returns, and the calls are as claimed.
C12_FirstUsableReturned ==
    /\ CallsAsClaimed
    /\ (s_pc = "done" /\ PrimaryGaveText) => s_result = Extracted

\* C12 amended: when text is extracted from the primary reply, the call
\* returns that text with leading and trailing whitespace removed, and the
\* calls are as claimed.
C12_FirstUsableReturnedStripped ==
    /\ CallsAsClaimed
    /\ (s_pc = "done" /\ PrimaryGaveText) => s_result = Strip(Extracted)

C12_Witness ==
    /\ s_pc = "done" /\ PrimaryGaveText
    /\ Extracted = R_padded /\ s_result = R_si
    /\ s_text = A_long /\ s_fn = "get_ai_summary"
    /\ Len(s_calls) = 1
    /\ Len(s_calls[1].input) = 1 + ArticleBudget

\* C13: a summary call returns None or a non-empty text, never "".
C13_ResultNonEmptyOrAbsent ==
    s_pc = "done" => (s_result = None \/ Len(s_result) > 0)

(***************************************************************************)
(* gating.py lines 147-167 under concurrent Decide calls: each thread of   *)
(* the executor looks its key up with _get_cached and, after a miss,       *)
(* stores a decision with _set_cached.  One step is one statement; the     *)
(* lock is released by the statement that leaves the `with` block.         *)
(***************************************************************************)
LockKeys == {KeyOf(T_inflacion), KeyOf(T_clima)}
LockTTLs == {0, 1, 2}

\* the statements inside `with _CACHE_LOCK:`
Critical == {"get_entry", "get_expiry", "get_del", "set_store"}

InitLock ==
    /\ ENABLE_GATING = TRUE
    /\ GATING_STRATEGY = RawKeywords
    /\ GATING_MATCH_MODE = RawAllow
    /\ GATING_KEYWORDS = <<>>
    /\ GATING_DEFAULT_ON_ERROR = TRUE
    /\ GATING_CACHE_TTL_SECONDS \in LockTTLs
    /\ USE_MODEL_BASED_GATING = TRUE
    /\ MODEL_BASED_GATING_FALLBACK_TO_KEYWORDS = TRUE
    /\ _CACHE = EmptyCache
    /\ now = 0
    /\ last = NoCall
    /\ SummarizeIdle
    /\ ThreadsIdle
    /\ NewsIdle

\* a `with` block left with the lock still held
WithExit_keeps(th) == th

\* the end of `with _CACHE_LOCK:` (lines 151-159, 166-167) releases the lock
WithExit(th) == 0

\* threading.Lock.acquire that does not wait
LockFree_always == TRUE

\* threading.Lock.acquire returns only when no thread holds the lock
LockFree == _CACHE_LOCK = 0

\* thread th goes to position pc with its frame changed to frame; a call
\* that returns ("idle") leaves no frame
Goto(th, pc, frame) ==
    /\ t_pc' = [t_pc EXCEPT ![th] = pc]
    /\ t_frame' = [t_frame EXCEPT ![th] = frame]

unlocked == <<config, now, last, sum_vars, news_vars, _CACHE_LOCK, _CACHE>>

\* _get_cached returns None (lines 149, 154, 158): its locals are gone and
\* the Decide call goes on to take its decision
Missed(th) == Goto(th, "evaluate", [NoFrame EXCEPT !.key = t_frame[th].key])

\* a Decide call reaches `cached = _get_cached(cache_key)` (line 102)
Begin(th) ==
    /\ t_pc[th] = "idle"
    /\ \E key \in LockKeys : Goto(th, "get_now", [NoFrame EXCEPT !.key = key])
    /\ UNCHANGED unlocked

\* lines 148-150
GetNow(th) ==
    /\ t_pc[th] = "get_now"
    /\ IF GATING_CACHE_TTL_SECONDS <= 0
       THEN Missed(th)
       ELSE Goto(th, "get_lock", [t_frame[th] EXCEPT !.now = now])
    /\ UNCHANGED unlocked

\* line 151
GetLock(th) ==
    /\ t_pc[th] = "get_lock"
    /\ LockFree
    /\ _CACHE_LOCK' = th
    /\ Goto(th, "get_entry", t_frame[th])
    /\ UNCHANGED <<config, now, last, sum_vars, news_vars, _CACHE>>

\* lines 152-154
GetEntry(th) ==
    /\ t_pc[th] = "get_entry"
    /\ IF t_frame[th].key \in DOMAIN _CACHE
       THEN /\ Goto(th, "get_expiry",
                    [t_frame[th] EXCEPT !.found = TRUE,
                                        !.entry = _CACHE[t_frame[th].key]])
            /\ UNCHANGED _CACHE_LOCK
       ELSE /\ Missed(th)
            /\ _CACHE_LOCK' = WithExit(th)
    /\ UNCHANGED <<config, now, last, sum_vars, news_vars, _CACHE>>

\* lines 155-156 and 159: a live entry is returned, the Decide call returns
GetExpiry(th) ==
    /\ t_pc[th] = "get_expiry"
    /\ IF t_frame[th].now >= t_frame[th].entry.expires_at
       THEN /\ Goto(th, "get_del", t_frame[th])
            /\ UNCHANGED _CACHE_LOCK
       ELSE /\ Goto(th, "idle", NoFrame)
            /\ _CACHE_LOCK' = WithExit(th)
    /\ UNCHANGED <<config, now, last, sum_vars, news_vars, _CACHE>>

\* lines 157-158; del raises KeyError when the key is gone
GetDel(th) ==
    /\ t_pc[th] = "get_del"
    /\ LET key == t_frame[th].key IN
       IF key \in DOMAIN _CACHE
       THEN /\ _CACHE' = [k \in DOMAIN _CACHE \ {key} |-> _CACHE[k]]
            /\ Missed(th)
       ELSE /\ UNCHANGED _CACHE
            /\ Goto(th, "KeyError", t_frame[th])
    /\ _CACHE_LOCK' = WithExit(th)
    /\ UNCHANGED <<config, now, last, sum_vars, news_vars>>

\* after the miss the call takes its decision, lines 107-127: the classifier
\* call is_article_relevant(text), in flight while the thread is at
\* "evaluate", or the keyword scan.  The step is the return of that call
\* with a decision; the clock can advance any number of times before it
Evaluate(th) ==
    /\ t_pc[th] = "evaluate"
    /\ \E decision \in BOOLEAN :
        Goto(th, "set_now", [t_frame[th] EXCEPT !.decision = decision])
    /\ UNCHANGED unlocked

\* the call enters _set_cached with its decision: lines 163-165
SetNow(th) ==
    /\ t_pc[th] = "set_now"
    /\ IF GATING_CACHE_TTL_SECONDS <= 0
       THEN Goto(th, "idle", NoFrame)
       ELSE Goto(th, "set_lock",
                 [t_frame[th] EXCEPT !.expires_at = now + GATING_CACHE_TTL_SECONDS])
    /\ UNCHANGED unlocked

\* line 166
SetLock(th) ==
    /\ t_pc[th] = "set_lock"
    /\ LockFree
    /\ _CACHE_LOCK' = th
    /\ Goto(th, "set_store", t_frame[th])
    /\ UNCHANGED <<config, now, last, sum_vars, news_vars, _CACHE>>

\* line 167; the Decide call returns
SetStore(th) ==
    /\ t_pc[th] = "set_store"
    /\ LET key   == t_frame[th].key
           entry == [expires_at |-> t_frame[th].expires_at,
                     decision |-> t_frame[th].decision]
       IN  _CACHE' = [k \in DOMAIN _CACHE \cup {key} |->
                        IF k = key THEN entry ELSE _CACHE[k]]
    /\ _CACHE_LOCK' = WithExit(th)
    /\ Goto(th, "idle", NoFrame)
    /\ UNCHANGED <<config, now, last, sum_vars, news_vars>>

NextLock ==
    \/ \E th \in Threads : Begin(th)
    \/ \E th \in Threads : GetNow(th)
    \/ \E th \in Threads : GetLock(th)
    \/ \E th \in Threads : GetEntry(th)
    \/ \E th \in Threads : GetExpiry(th)
    \/ \E th \in Threads : GetDel(th)
    \/ \E th \in Threads : Evaluate(th)
    \/ \E th \in Threads : SetNow(th)
    \/ \E th \in Threads : SetLock(th)
    \/ \E th \in Threads : SetStore(th)
    \/ Tick

SpecLock == InitLock /\ [][NextLock]_vars

\* the pairs a store can have written by now
Written ==
    [expires_at : {t + GATING_CACHE_TTL_SECONDS : t \in 0..now}, decision : BOOLEAN]

\* C16: a thread at a statement that reads, writes or deletes the cache
\* holds the lock, and no other thread is at such a statement; the cache
\* changes only in a step of the holder; every entry in the cache and every
\* entry a lookup has read is a whole pair as a store writes it, a decision
\* with the time of a store plus TTL; a delete
\* removes the entry its thread read as expired, never one stored since, and
\* never finds the key gone.
C16_CacheAccessUnderLock ==
    [][/\ \A th \in Threads : t_pc'[th] \in Critical => _CACHE_LOCK' = th
       /\ _CACHE' # _CACHE
            => \E th \in Threads :
                /\ _CACHE_LOCK = th
                /\ t_pc[th] \in {"get_del", "set_store"}
                /\ t_pc'[th] # t_pc[th]
       /\ \A k \in DOMAIN _CACHE' : _CACHE'[k] \in Written'
       /\ \A th \in Threads :
            /\ t_frame'[th].found => t_frame'[th].entry \in Written'
            /\ t_pc'[th] # "KeyError"
            /\ (t_pc[th] = "get_del" /\ t_pc'[th] # "get_del")
                => /\ t_frame[th].key \in DOMAIN _CACHE
                   /\ _CACHE[t_frame[th].key] = t_frame[th].entry
                   /\ t_frame[th].now >= _CACHE[t_frame[th].key].expires_at]_vars

\* one thread is about to delete the expired entry it read while the other
\* waits for the lock with a fresh decision for the same key
C16_Witness ==
    /\ t_pc[1] = "get_del" /\ _CACHE_LOCK = 1
    /\ t_pc[2] = "set_lock"
    /\ t_frame[1].key = t_frame[2].key
    /\ t_frame[2].expires_at > now

\* The same calls under the scheduling the interpreter and threading.Lock
\* give them: a thread that can run its next statement runs it (weak
\* fairness; this includes the return of the classifier call of Evaluate),
\* and a thread blocked in acquire gets the lock when it is released again
\* and again (strong fairness).
Run(th) ==
    \/ GetNow(th)
    \/ GetEntry(th)
    \/ GetExpiry(th)
    \/ GetDel(th)
    \/ Evaluate(th)
    \/ SetNow(th)
    \/ SetStore(th)
Acquire(th) == GetLock(th) \/ SetLock(th)

SpecLockFair ==
    /\ InitLock
    /\ [][NextLock]_vars
    /\ \A th \in Threads : WF_vars(Run(th)) /\ SF_vars(Acquire(th))

\* the positions where a thread waits in _CACHE_LOCK.acquire
Waiting == {"get_lock", "set_lock"}
\* thread th can take its next step
CanStep(th) ==
    /\ t_pc[th] \notin {"idle", "KeyError"}
    /\ t_pc[th] \in Waiting => LockFree

\* C29: the cache lock is held only inside one lookup or one store and never
\* while the holder's classifier call is in flight; in no state are all the
\* running calls stuck; a thread waiting for the lock while another thread's
\* classifier call is in flight finds the lock free unless a third statement
\* of a lookup or store holds it; and every Decide call eventually returns.
C29_LockOnlyAroundCacheAccess ==
    /\ [](\A th \in Threads :
            /\ _CACHE_LOCK = th => t_pc[th] \in Critical
            /\ t_pc[th] = "evaluate" => _CACHE_LOCK # th)
    /\ []((\E th \in Threads : t_pc[th] # "idle")
            => \E th \in Threads : CanStep(th))
    /\ [](\A th, other \in Threads :
            (t_pc[th] = "evaluate" /\ t_pc[other] \in Waiting
             /\ \A third \in Threads \ {th, other} : t_pc[third] \notin Critical)
                => ENABLED Acquire(other))
    /\ \A th \in Threads : (t_pc[th] # "idle") ~> (t_pc[th] = "idle")

\* the classifier call of thread 1 is in flight and thread 2, which began
\* with another text when the clock had advanced, holds the lock for its
\* lookup
C29_Witness ==
    /\ t_pc[1] = "evaluate"
    /\ t_pc[2] = "get_entry" /\ _CACHE_LOCK = 2
    /\ t_frame[2].now > 0
    /\ t_frame[2].key # t_frame[1].key

\* thread th returns from its Decide call in this step
Returns(th) == t_pc[th] # "idle" /\ t_pc'[th] = "idle"

\* C30: under concurrent Decide calls a cache entry is written only with the
\* decision its writer's own completed evaluation of that fingerprint
\* produced; a call returns either after its own evaluation or with the
\* entry it read from the cache, unexpired at the clock it read; and while
\* entries are kept (TTL > 0) no two calls are evaluating the same
\* fingerprint at once, so that overlapping calls for one uncached text
\* evaluate it once.
C30_OneEvaluationPerFingerprint ==
    /\ [][\A k \in DOMAIN _CACHE' :
            (k \notin DOMAIN _CACHE \/ _CACHE'[k] # _CACHE[k])
                => \E th \in Threads :
                    /\ t_pc[th] = "set_store"
                    /\ t_frame[th].key = k
                    /\ _CACHE'[k].decision = t_frame[th].decision]_vars
    /\ [][\A th \in Threads :
            Returns(th) =>
                \/ t_pc[th] \in {"set_now", "set_store"}
                \/ /\ t_pc[th] = "get_expiry"
                   /\ t_frame[th].key \in DOMAIN _CACHE
                   /\ _CACHE[t_frame[th].key] = t_frame[th].entry
                   /\ t_frame[th].now < t_frame[th].entry.expires_at]_vars
    /\ [](GATING_CACHE_TTL_SECONDS > 0 =>
            \A th, other \in Threads :
                (th # other /\ t_pc[th] = "evaluate" /\ t_pc[other] = "evaluate")
                    => t_frame[th].key # t_frame[other].key)

(***************************************************************************)
(* Decide on texts and keywords written with capitals and accents: the     *)
(* keyword strategy, no classifier.                                        *)
(***************************************************************************)
AccentConfigs ==
    [enable : {TRUE}, strategy : {RawKeywords}, mode : {RawAllow, RawDenyCaps},
     keywords : AccentKeywordLists, default : {TRUE}, ttl : {0, 2},
     use_model : {TRUE}, fallback : {TRUE}]

InitAccents ==
    /\ \E c \in AccentConfigs :
        /\ ENABLE_GATING = c.enable
        /\ GATING_STRATEGY = c.strategy
        /\ GATING_MATCH_MODE = c.mode
        /\ GATING_KEYWORDS = c.keywords
        /\ GATING_DEFAULT_ON_ERROR = c.default
        /\ GATING_CACHE_TTL_SECONDS = c.ttl
        /\ USE_MODEL_BASED_GATING = c.use_model
        /\ MODEL_BASED_GATING_FALLBACK_TO_KEYWORDS = c.fallback
    /\ _CACHE = EmptyCache
    /\ now = 0
    /\ last = NoCall
    /\ SummarizeIdle
    /\ ThreadsIdle
    /\ NewsIdle

CallDecideAccents ==
    \E text \in AccentTexts :
        Complete(should_summarize_with_matches(text, FALSE, "not_called"), "not_called")

NextAccents == CallDecideAccents \/ Tick

SpecAccents == InitAccents /\ [][NextAccents]_vars

\* C21: two texts with the same normalized form have the same cache key and
\* get the same matches and the same decision from the keyword path; and a
\* configured keyword whose normalized form (capitals and accents removed)
\* occurs as a whole word in the normalized text is in the match list.
C21_CasingAndAccentsNeverMatter ==
    /\ \A t1, t2 \in AccentTexts :
        _normalize_text(t1) = _normalize_text(t2)
            => LET r1 == should_summarize_with_matches(t1, FALSE, "not_called")
                   r2 == should_summarize_with_matches(t2, FALSE, "not_called")
               IN  /\ KeyOf(t1) = KeyOf(t2)
                   /\ r1.obs.matches = r2.obs.matches
                   /\ r1.obs.allowed = r2.obs.allowed
    /\ CleanScan
        => \A i \in 1..Len(GATING_KEYWORDS) :
            DelimitedOccurrence(_normalize_text(GATING_KEYWORDS[i]), Searched(last))
                => GATING_KEYWORDS[i] \in Range(last.matches)

(***************************************************************************)
(* _normalize_text applied to every short string over an alphabet with     *)
(* cased, accented, combining and compatibility characters, and applied    *)
(* again to its own result.                                                *)
(***************************************************************************)
\* the longest string normalized
NormLen == 3
NormAlphabet == {"a", "A", "o_acute", "O_acute", "acute_mark", "euro", "tel_sign"}
NormStrings == UNION {[1..n -> NormAlphabet] : n \in 0..NormLen}

InitNormalize ==
    /\ GatingAtRest
    /\ ThreadsIdle
    /\ NewsIdle
    /\ s_pc = "idle"
    /\ s_fn = "_normalize_text"
    /\ s_text \in NormStrings
    /\ s_client = FALSE
    /\ s_calls = <<>>
    /\ s_primary = NoPrimary
    /\ s_secondary = NoSecondary
    /\ s_result = None

\* normalized = _normalize_text(text); s_calls lists the results so far
Normalize ==
    /\ s_pc = "idle"
    /\ s_result' = _normalize_text(s_text)
    /\ s_calls' = <<s_result'>>
    /\ s_pc' = "once"
    /\ UNCHANGED <<s_fn, s_text, s_client, s_primary, s_secondary, gating_vars, lock_vars, news_vars>>

\* _normalize_text(normalized)
NormalizeAgain ==
    /\ s_pc = "once"
    /\ s_result' = _normalize_text(s_result)
    /\ s_calls' = Append(s_calls, s_result')
    /\ s_pc' = "twice"
    /\ UNCHANGED <<s_fn, s_text, s_client, s_primary, s_secondary, gating_vars, lock_vars, news_vars>>

NextNormalize == Normalize \/ NormalizeAgain

SpecNormalize == InitNormalize /\ [][NextNormalize]_vars

\* C22: normalizing the result of a normalization returns it unchanged, and
\* the result is the input without its non-ASCII characters and capitals: it
\* holds only ASCII characters, none of them a capital.
C22_NormalizeIdempotent ==
    s_pc = "twice"
        => /\ s_calls[2] = s_calls[1]
           /\ \A i \in 1..Len(s_calls[1]) :
                s_calls[1][i] \notin NonAscii \cup Range(UpperSeq)

\* the compatibility character decomposes into capitals, which the first
\* normalization has lowered
C22_Witness ==
    /\ s_pc = "twice"
    /\ s_text = <<"tel_sign", "O_acute", "euro">>
    /\ s_calls = << <<"t", "e", "l", "o">>, <<"t", "e", "l", "o">> >>

(***************************************************************************)
(* ai_services.py: is_article_relevant.  A call is a process like a        *)
(* summary call: the two early returns, the Responses API attempt with its *)
(* own extraction and parsing, the chat completion attempt.  The result is *)
(* PyTrue, PyFalse or None.                                                *)
(***************************************************************************)
PyTrue == <<"True">>
PyFalse == <<"False">>

W_true == <<"t", "r", "u", "e">>
W_false == <<"f", "a", "l", "s", "e">>
C_true == <<"t", "r", "u", "e">>
C_False_padded == <<" ", "F", "a", "l", "s", "e", " ">>
C_untrue == <<"u", "n", "t", "r", "u", "e">>
C_maybe == <<"m", "a", "y", "b", "e">>

\* a content that is not a list: iterating it raises TypeError
NotIterable == << Part(<<"TypeError">>) >>

ClassifierTexts == {None, <<>>, A_short, A_medium, T_clima, T_mercosur}

ClassifierPrimaryReplies ==
    { PrimaryRaises,
      Responded([output_text |-> C_true, output |-> <<>>]),
      Responded([output_text |-> C_False_padded, output |-> <<>>]),
      Responded([output_text |-> C_untrue, output |-> <<>>]),
      Responded([output_text |-> C_maybe, output |-> <<>>]),
      Responded([output_text |-> R_blank, output |-> <<>>]),
      Responded([output_text |-> None, output |-> <<>>]),
      Responded([output_text |-> <<>>,
                 output |-> << Item(None, << Part(None), Part(W_false) >>) >>]),
      Responded([output_text |-> None,
                 output |-> << Item(<<>>, <<>>), Item(C_true, <<>>) >>]),
      Responded([output_text |-> None,
                 output |-> << Item(None, NotIterable) >>]) }

ClassifierSecondaryReplies ==
    { SecondaryRaises,
      Completed(<<>>),
      Completed(<< Choice(None) >>),
      Completed(<< Choice(<<>>) >>),
      Completed(<< Choice(C_true), Choice(W_false) >>),
      Completed(<< Choice(C_False_padded) >>),
      Completed(<< Choice(C_maybe) >>) }

\* str.startswith
StartsWith(s, prefix) ==
    Len(s) >= Len(prefix) /\ SubSeq(s, 1, Len(prefix)) = prefix

\* the parse returning False for a reply with neither word
classifier_parse_default_false(text_resp) ==
    LET norm == Lower(Strip(text_resp))
    IN  IF StartsWith(norm, W_true) THEN PyTrue
        ELSE IF StartsWith(norm, W_false) THEN PyFalse
        ELSE IF IsSubstring(W_true, norm) THEN PyTrue
        ELSE PyFalse

\* lines 266-277 and 292-302: the boolean read from the reply's text
classifier_parse(text_resp) ==
    LET norm == Lower(Strip(text_resp))
    IN  IF StartsWith(norm, W_true) THEN PyTrue
        ELSE IF StartsWith(norm, W_false) THEN PyFalse
        ELSE IF IsSubstring(W_true, norm) THEN PyTrue
        ELSE IF IsSubstring(W_false, norm) THEN PyFalse
        ELSE None

\* lines 252-264 iterate a content that is not a list
RECURSIVE ExtractionRaises(_)
ExtractionRaises(output) ==
    IF output = <<>> THEN FALSE
    ELSE LET item == Head(output)
         IN  IF Truthy(item.text) THEN FALSE
             ELSE IF item.content = NotIterable THEN TRUE
             ELSE IF Truthy(FirstPartText(item.content)) THEN FALSE
             ELSE ExtractionRaises(Tail(output))

\* lines 248-264: text_resp
classifier_text_resp(response) ==
    IF Truthy(response.output_text) THEN response.output_text
    ELSE IF Len(response.output) > 0 THEN FirstItemText(response.output)
    ELSE None

\* the first try block going on to the chat completion when the reply's text
\* has neither word
classifier_primary_retry_unparsed(reply) ==
    LET raised == \/ reply.raises
                  \/ /\ ~Truthy(reply.response.output_text)
                     /\ ExtractionRaises(reply.response.output)
        text_resp == classifier_text_resp(reply.response)
    IN  IF raised
        THEN [escaped |-> ~ExceptException("responses"), returned |-> FALSE,
              value |-> None]
        ELSE IF Truthy(text_resp) /\ classifier_parse(text_resp) # None
        THEN [escaped |-> FALSE, returned |-> TRUE, value |-> classifier_parse(text_resp)]
        ELSE [escaped |-> FALSE, returned |-> FALSE, value |-> None]

\* the first try block (lines 240-279): what it raised, whether it returned,
\* and the value it returned
classifier_primary(reply) ==
    LET raised == \/ reply.raises
                  \/ /\ ~Truthy(reply.response.output_text)
                     /\ ExtractionRaises(reply.response.output)
        text_resp == classifier_text_resp(reply.response)
    IN  IF raised
        THEN [escaped |-> ~ExceptException("responses"), returned |-> FALSE,
              value |-> None]
        ELSE IF Truthy(text_resp)
        THEN [escaped |-> FALSE, returned |-> TRUE, value |-> classifier_parse(text_resp)]
        ELSE [escaped |-> FALSE, returned |-> FALSE, value |-> None]

\* the second try block (lines 282-305): choices[0] of no choices raises
\* IndexError, .strip() of a content of None raises AttributeError
classifier_secondary(reply) ==
    LET raised == \/ reply.raises
                  \/ reply.choices = <<>>
                  \/ reply.choices[1].content = None
    IN  IF raised
        THEN [escaped |-> ~ExceptException("completions"), value |-> None]
        ELSE [escaped |-> FALSE, value |-> classifier_parse(reply.choices[1].content)]

\* the arguments of the two outbound calls (lines 241-246, 283-291)
ClassifierCall(api, text) ==
    [api |-> api,
     model |-> IF api = "responses.create"
               THEN "MODEL_BASED_GATING_MODEL" ELSE "gpt-4o-mini",
     instructions |-> "clasificador",
     input |-> <<"Articulo de noticia:\n">> \o classifier_article(text)]

InitClassifier == GatingAtRest /\ SummarizeIdle /\ ThreadsIdle /\ NewsIdle

\* the call and the two early returns (lines 224-228)
ClassifierEnter ==
    /\ s_pc = "idle"
    /\ \E text \in ClassifierTexts, client \in BOOLEAN :
        /\ s_fn' = "is_article_relevant"
        /\ s_text' = text
        /\ s_client' = client
        /\ s_pc' = IF Falsy(text) \/ ~client THEN "done" ELSE "c_primary"
    /\ UNCHANGED <<s_calls, s_primary, s_secondary, s_result, gating_vars, lock_vars, news_vars>>

ClassifierPrimary ==
    /\ s_pc = "c_primary"
    /\ \E reply \in ClassifierPrimaryReplies :
        LET r == classifier_primary(reply) IN
        /\ s_calls' = Append(s_calls, ClassifierCall("responses.create", s_text))
        /\ s_primary' = reply
        /\ s_result' = r.value
        /\ s_pc' = IF r.escaped THEN "raised"
                   ELSE IF r.returned THEN "done"
                   ELSE "c_secondary"
    /\ UNCHANGED <<s_fn, s_text, s_client, s_secondary, gating_vars, lock_vars, news_vars>>

ClassifierSecondary ==
    /\ s_pc = "c_secondary"
    /\ \E reply \in ClassifierSecondaryReplies :
        LET r == classifier_secondary(reply) IN
        /\ s_calls' = Append(s_calls, ClassifierCall("chat.completions.create", s_text))
        /\ s_secondary' = reply
        /\ s_result' = r.value
        /\ s_pc' = IF r.escaped THEN "raised" ELSE "done"
    /\ UNCHANGED <<s_fn, s_text, s_client, s_primary, gating_vars, lock_vars, news_vars>>

NextClassifier == ClassifierEnter \/ ClassifierPrimary \/ ClassifierSecondary

SpecClassifier == InitClassifier /\ [][NextClassifier]_vars

\* an error in the primary attempt: the call raised, or reading its reply did
PrimaryError ==
    /\ s_primary.made
    /\ \/ s_primary.raises
       \/ /\ ~Truthy(s_primary.response.output_text)
          /\ ExtractionRaises(s_primary.response.output)

\* an error in the secondary attempt: the call raised, or reading its reply
\* did (no choice, no content)
SecondaryError ==
    /\ s_secondary.made
    /\ \/ s_secondary.raises
       \/ s_secondary.choices = <<>>
       \/ s_secondary.choices[1].content = None

ClassifierDone == s_fn = "is_article_relevant" /\ s_pc = "done"

\* the call never ends in an exception and returns True, False or None
ReturnsTernary ==
    /\ s_pc # "raised"
    /\ ClassifierDone => s_result \in {PyTrue, PyFalse, None}

PrimaryHasText ==
    LET output == s_primary.response.output
    IN  \/ Truthy(s_primary.response.output_text)
        \/ \E i \in 1..Len(output) :
              \/ Truthy(output[i].text)
              \/ \E j \in 1..Len(output[i].content) :
                    Truthy(output[i].content[j].text)
\* the words the parse looks for are both missing from that text, whatever
\* its casing
NeitherWord(text) ==
    ~IsSubstring(W_true, Lower(text)) /\ ~IsSubstring(W_false, Lower(text))

\* C33: is_article_relevant makes at most two outbound calls, responses
\* .create and then chat.completions.create; the second is made exactly when
\* the first raised (the call, or the reading of its reply) or its reply
\* carried no text; a reply whose text has neither "true" nor "false" gives
\* None at once, after one call; without a client or with an empty text it
\* gives None after no call.
C33_ClassifierDegradesOnce ==
    /\ Len(s_calls) <= 2
    /\ Len(s_calls) = (IF s_primary.made THEN 1 ELSE 0)
                      + (IF s_secondary.made THEN 1 ELSE 0)
    /\ s_secondary.made => s_primary.made
    /\ Len(s_calls) >= 1 => s_calls[1].api = "responses.create"
    /\ Len(s_calls) = 2 => s_calls[2].api = "chat.completions.create"
    /\ (s_fn = "is_article_relevant" /\ s_pc \in {"done", "raised"})
        => /\ s_secondary.made
                <=> (s_primary.made /\ (PrimaryError \/ ~PrimaryHasText))
           /\ (Falsy(s_text) \/ ~s_client)
                => s_calls = <<>> /\ s_result = None /\ s_pc = "done"
           /\ (s_primary.made /\ ~PrimaryError /\ PrimaryHasText
               /\ NeitherWord(classifier_text_resp(s_primary.response)))
                => Len(s_calls) = 1 /\ s_result = None /\ s_pc = "done"

\* the primary reply said "maybe": one outbound call, the result is None
C33_Witness ==
    /\ ClassifierDone
    /\ s_primary = Responded([output_text |-> C_maybe, output |-> <<>>])
    /\ Len(s_calls) = 1 /\ ~s_secondary.made
    /\ s_result = None

(***************************************************************************)
(* cogs/news.py: one run of the summarizenews command.  Every awaited call *)
(* of summarize_news is one action; the calls made in the executor return  *)
(* what the services return, which catch their own exceptions; ctx.send    *)
(* and feedparser.parse can raise.                                         *)
(***************************************************************************)
RSS_FEEDS == <<"feed_1", "feed_2">>

\* ARTICLES_PER_FEED (default 10), scaled to the model's feeds
ARTICLES_PER_FEED == 2

\* the numbers of entries a parsed feed can have
FeedSizes == {0, 1, 3}

\* feed.entries[:ARTICLES_PER_FEED] (line 38): the number of entries it keeps
SliceLen(size) == IF size < ARTICLES_PER_FEED THEN size ELSE ARTICLES_PER_FEED

\* what fetch_article_with_image returns as the article text: `article.text
\* or None`, and None after any failure
NewsTexts == {None, T_inflacion, T_clima}

\* what get_ai_summary returns
NewsSummaries == {None, <<>>, R_si}

NewsConfigs ==
    [strategy : {RawKeywords, RawModelPadded}, audio : BOOLEAN, show : BOOLEAN]

InitNews ==
    /\ \E c \in NewsConfigs :
        /\ GATING_STRATEGY = c.strategy
        /\ ENABLE_AUDIO_OVERVIEWS = c.audio
        /\ GATING_SHOW_MATCHES = c.show
    /\ ENABLE_GATING = TRUE
    /\ GATING_MATCH_MODE = RawAllow
    /\ GATING_KEYWORDS = ConfigKeywords(<< K_inflacion >>)
    /\ GATING_DEFAULT_ON_ERROR = TRUE
    /\ GATING_CACHE_TTL_SECONDS = 2
    /\ USE_MODEL_BASED_GATING = TRUE
    /\ MODEL_BASED_GATING_FALLBACK_TO_KEYWORDS = TRUE
    /\ _CACHE = EmptyCache
    /\ now = 0
    /\ last = NoCall
    /\ SummarizeIdle
    /\ ThreadsIdle
    /\ n_pc = "idle"
    /\ n_feed = 0
    /\ n_item = 0
    /\ n_entries = <<>>
    /\ n_cur = NoItem
    /\ n_out = NoOutcomes
    /\ n_sent = {}
    /\ n_errors = {}
    /\ sent_anything = FALSE
    /\ n_status = "none"

news_config == <<ENABLE_AUDIO_OVERVIEWS, GATING_SHOW_MATCHES>>
news_rest == <<config, now, sum_vars, lock_vars, news_config>>

\* the entry the loop body is running for
CurrentItem == <<n_feed, n_item>>

\* the body ends for the current entry with outcome end: `continue`, the end
\* of the body, or an exception that leaves the loop
EndItem(end) ==
    n_out' = [p \in DOMAIN n_out \cup {CurrentItem} |->
                 IF p = CurrentItem THEN end ELSE n_out[p]]

\* an awaited call of the body is made
Step(cur, name) == [cur EXCEPT !.steps = Append(@, name)]

\* await ctx.send("Fetching and summarizing news...") (line 29), then
\* sent_anything = False and the first iteration of `for feed_url in RSS_FEEDS`
NewsStart ==
    /\ n_pc = "idle"
    /\ \E raised \in BOOLEAN :
        /\ n_pc' = IF raised THEN "crashed" ELSE "feed"
        /\ n_feed' = IF raised THEN n_feed ELSE 1
    /\ sent_anything' = FALSE
    /\ UNCHANGED <<n_item, n_entries, n_cur, n_out, n_sent, n_errors, n_status>>
    /\ UNCHANGED <<_CACHE, last, news_rest>>

\* feedparser.parse in the executor (lines 35-36) and the slice of line 38
NewsParseFeed ==
    /\ n_pc = "feed"
    /\ n_feed <= Len(RSS_FEEDS)
    /\ \/ /\ n_pc' = "handler"
          /\ n_entries' = Append(n_entries, 0)
       \/ \E size \in FeedSizes :
            /\ n_pc' = "entry"
            /\ n_entries' = Append(n_entries, SliceLen(size))
    /\ n_item' = 1
    /\ UNCHANGED <<n_feed, n_cur, n_out, n_sent, n_errors, sent_anything, n_status>>
    /\ UNCHANGED <<_CACHE, last, news_rest>>

\* `for entry in feed.entries[:ARTICLES_PER_FEED]` has a next entry: the body
\* starts (lines 39-40)
NewsEntry ==
    /\ n_pc = "entry"
    /\ n_item <= n_entries[n_feed]
    /\ n_pc' = "fetch"
    /\ n_cur' = [NoItem EXCEPT !.id = CurrentItem]
    /\ UNCHANGED <<n_feed, n_item, n_entries, n_out, n_sent, n_errors,
                   sent_anything, n_status>>
    /\ UNCHANGED <<_CACHE, last, news_rest>>

\* the inner loop is exhausted: the next iteration of the feed loop
NewsNextFeed ==
    /\ n_pc = "entry"
    /\ n_item > n_entries[n_feed]
    /\ n_pc' = "feed"
    /\ n_feed' = n_feed + 1
    /\ UNCHANGED <<n_item, n_entries, n_cur, n_out, n_sent, n_errors,
                   sent_anything, n_status>>
    /\ UNCHANGED <<_CACHE, last, news_rest>>

\* `if not article_text` (line 46)
NoArticle(article_text) == Falsy(article_text)

\* fetch_article_with_image in the executor (lines 42-48)
NewsFetch ==
    /\ n_pc = "fetch"
    /\ \E article_text \in NewsTexts, article_image_url \in BOOLEAN :
        LET cur == [Step(n_cur, "fetch") EXCEPT !.text = article_text,
                                                !.image_url = article_image_url]
        IN  IF NoArticle(article_text)
            THEN /\ n_cur' = [cur EXCEPT !.end = "no_text"]
                 /\ EndItem("no_text")
                 /\ n_item' = n_item + 1
                 /\ n_pc' = "entry"
            ELSE /\ n_cur' = cur
                 /\ UNCHANGED <<n_out, n_item>>
                 /\ n_pc' = "gate"
    /\ UNCHANGED <<n_feed, n_entries, n_sent, n_errors, sent_anything, n_status>>
    /\ UNCHANGED <<_CACHE, last, news_rest>>

\* a gate that lets every article through
Denied_never(allowed) == FALSE

\* `if not allowed` (line 53)
Denied(allowed) == ~allowed

\* should_summarize_with_matches in the executor (lines 50-55)
NewsGate ==
    /\ n_pc = "gate"
    /\ \E cls \in ClassifierInputs :
        LET r   == should_summarize_with_matches(n_cur.text, FALSE, cls)
            cur == [Step(n_cur, "gate") EXCEPT !.allowed = r.obs.allowed,
                                               !.matches = r.obs.matches]
        IN  /\ r.classifier <=> cls \in ClassifierOutcomes
            /\ _CACHE' = r.cache
            /\ last' = r.obs
            /\ IF r.obs.raised
               THEN /\ n_cur' = [cur EXCEPT !.end = "raised"]
                    /\ EndItem("raised")
                    /\ UNCHANGED n_item
                    /\ n_pc' = "handler"
               ELSE IF Denied(r.obs.allowed)
               THEN /\ n_cur' = [cur EXCEPT !.end = "denied"]
                    /\ EndItem("denied")
                    /\ n_item' = n_item + 1
                    /\ n_pc' = "entry"
               ELSE /\ n_cur' = cur
                    /\ UNCHANGED <<n_out, n_item>>
                    /\ n_pc' = "summarize"
    /\ UNCHANGED <<n_feed, n_entries, n_sent, n_errors, sent_anything, n_status>>
    /\ UNCHANGED news_rest

\* `if not summary` (line 58)
NoSummary(summary) == Falsy(summary)

\* get_ai_summary in the executor (lines 57-60)
NewsSummarize ==
    /\ n_pc = "summarize"
    /\ \E summary \in NewsSummaries :
        LET cur == [Step(n_cur, "summarize") EXCEPT !.summary = summary]
        IN  IF NoSummary(summary)
            THEN /\ n_cur' = [cur EXCEPT !.end = "no_summary"]
                 /\ EndItem("no_summary")
                 /\ n_item' = n_item + 1
                 /\ n_pc' = "entry"
            ELSE /\ n_cur' = cur
                 /\ UNCHANGED <<n_out, n_item>>
                 /\ n_pc' = "render"
    /\ UNCHANGED <<n_feed, n_entries, n_sent, n_errors, sent_anything, n_status>>
    /\ UNCHANGED <<_CACHE, last, news_rest>>

\* `if GATING_SHOW_MATCHES and matches` (lines 68-71): the matches the footer
\* shows
footer_text(matches) == IF GATING_SHOW_MATCHES /\ matches # <<>> THEN matches ELSE <<>>

\* the embed, the image and the audio overview (lines 62-101).  image: whether
\* download_image returned bytes; audio_summary: whether get_audio_summary
\* returned a text; audio_payload: whether generate_tts_audio returned audio
NewsRender ==
    /\ n_pc = "render"
    /\ \E image \in BOOLEAN, audio_summary \in BOOLEAN, audio_payload \in BOOLEAN :
        LET c1 == IF n_cur.image_url THEN Step(n_cur, "image") ELSE n_cur
            c2 == IF ENABLE_AUDIO_OVERVIEWS THEN Step(c1, "audio_summary") ELSE c1
            c3 == IF ENABLE_AUDIO_OVERVIEWS /\ audio_summary THEN Step(c2, "tts") ELSE c2
            files == (IF n_cur.image_url /\ image THEN {"article.jpg"} ELSE {})
                     \cup (IF ENABLE_AUDIO_OVERVIEWS /\ audio_summary /\ audio_payload
                           THEN {"audio_resumen"} ELSE {})
        IN  /\ image => n_cur.image_url
            /\ audio_summary => ENABLE_AUDIO_OVERVIEWS
            /\ audio_payload => audio_summary
            /\ n_cur' = [c3 EXCEPT !.files = files,
                                   !.footer = footer_text(n_cur.matches)]
    /\ n_pc' = "send"
    /\ UNCHANGED <<n_feed, n_item, n_entries, n_out, n_sent, n_errors,
                   sent_anything, n_status>>
    /\ UNCHANGED <<_CACHE, last, news_rest>>

\* await ctx.send(embed=embed, ...) and sent_anything = True (lines 103-107);
\* an exception of ctx.send leaves the entry loop for the handler of line 108
NewsSend ==
    /\ n_pc = "send"
    /\ \E raised \in BOOLEAN :
        IF raised
        THEN /\ n_cur' = [Step(n_cur, "send") EXCEPT !.end = "raised"]
             /\ EndItem("raised")
             /\ n_pc' = "handler"
             /\ UNCHANGED <<n_item, n_sent, sent_anything>>
        ELSE /\ n_cur' = [Step(n_cur, "send") EXCEPT !.end = "sent"]
             /\ EndItem("sent")
             /\ n_sent' = n_sent \cup {CurrentItem}
             /\ sent_anything' = TRUE
             /\ n_item' = n_item + 1
             /\ n_pc' = "entry"
    /\ UNCHANGED <<n_feed, n_entries, n_errors, n_status>>
    /\ UNCHANGED <<_CACHE, last, news_rest>>

\* `except Exception` of the feed's try (lines 108-110): the error message is
\* sent and the feed loop goes on with the next feed
NewsHandler ==
    /\ n_pc = "handler"
    /\ \E raised \in BOOLEAN :
        IF raised
        THEN /\ n_pc' = "crashed"
             /\ UNCHANGED <<n_feed, n_errors>>
        ELSE /\ n_pc' = "feed"
             /\ n_errors' = n_errors \cup {n_feed}
             /\ n_feed' = n_feed + 1
    /\ UNCHANGED <<n_item, n_entries, n_cur, n_out, n_sent, sent_anything, n_status>>
    /\ UNCHANGED <<_CACHE, last, news_rest>>

\* the feed loop is exhausted: the final status message (lines 112-115)
NewsFinal ==
    /\ n_pc = "feed"
    /\ n_feed > Len(RSS_FEEDS)
    /\ \E raised \in BOOLEAN :
        IF raised
        THEN /\ n_pc' = "crashed"
             /\ UNCHANGED n_status
        ELSE /\ n_pc' = "done"
             /\ n_status' = IF ~sent_anything THEN "nothing" ELSE "all_summarized"
    /\ UNCHANGED <<n_feed, n_item, n_entries, n_cur, n_out, n_sent, n_errors,
                   sent_anything>>
    /\ UNCHANGED <<_CACHE, last, news_rest>>

NextNews ==
    \/ NewsStart
    \/ NewsParseFeed
    \/ NewsEntry
    \/ NewsNextFeed
    \/ NewsFetch
    \/ NewsGate
    \/ NewsSummarize
    \/ NewsRender
    \/ NewsSend
    \/ NewsHandler
    \/ NewsFinal

SpecNews == InitNews /\ [][NextNews]_vars

\* the awaited calls of the loop body, in the order of the claim: fetch,
\* Decide, Summarize, then the rendering of the item
StepOrder == <<"fetch", "gate", "summarize", "image", "audio_summary", "tts", "send">>
StepPos(name) == CHOOSE i \in 1..Len(StepOrder) : StepOrder[i] = name
Made(name) == \E i \in 1..Len(n_cur.steps) : n_cur.steps[i] = name
RenderSteps == {"image", "audio_summary", "tts", "send"}

\* C26: for every feed item the calls are made in the order fetch, Decide,
\* Summarize, render; get_ai_summary is called for an item only after Decide
\* returned ALLOWED for that item's text; the item is rendered only after
\* get_ai_summary returned a summary; and an item that ended with a DENY or
\* without a summary was never sent.
C26_FetchDecideSummarizeRender ==
    /\ \A i, j \in 1..Len(n_cur.steps) :
          i < j => StepPos(n_cur.steps[i]) < StepPos(n_cur.steps[j])
    /\ Made("gate") => Made("fetch") /\ Truthy(n_cur.text)
    /\ Made("summarize") =>
          /\ Made("gate")
          /\ IsDecide(last) /\ last.text = n_cur.text /\ ~last.raised
          /\ last.allowed
    /\ (\E name \in RenderSteps : Made(name)) =>
          Made("summarize") /\ Truthy(n_cur.summary)
    /\ n_pc \in {"render", "send"} =>
          Made("summarize") /\ Truthy(n_cur.summary)
    /\ n_cur.end = "denied" =>
          /\ IsDecide(last) /\ last.text = n_cur.text /\ ~last.allowed
          /\ ~Made("summarize")
    /\ n_cur.end = "no_summary" => Made("summarize") /\ ~Truthy(n_cur.summary)
    /\ n_cur.end \in {"denied", "no_summary"} =>
          /\ n_cur.id \notin n_sent
          /\ \A name \in RenderSteps : ~Made(name)
    /\ \A p \in DOMAIN n_out :
          (p \in n_sent) <=> n_out[p] = "sent"
    /\ n_cur.end = "sent" => Made("send") /\ n_cur.id \in n_sent

\* one item was denied and nothing was sent for it, another had no summary,
\* and a third went through every step and was sent
C26_Witness ==
    /\ \E p \in DOMAIN n_out : n_out[p] = "denied"
    /\ \E p \in DOMAIN n_out : n_out[p] = "no_summary"
    /\ n_cur.end = "sent"
    /\ n_cur.steps = <<"fetch", "gate", "summarize", "image", "audio_summary", "tts", "send">>

\* C27: a failure while processing one item is limited to that item: once the
\* command is done every entry of every feed has been processed, and the
\* command never ends without its final status message after an item failed.
C27_ItemFailureStaysLocal ==
    /\ n_pc = "done" =>
          \A f \in 1..Len(RSS_FEEDS) :
              /\ f <= Len(n_entries)
              /\ \A i \in 1..n_entries[f] : <<f, i>> \in DOMAIN n_out
    /\ n_pc = "crashed" => \A p \in DOMAIN n_out : n_out[p] # "raised"

(***************************************************************************)
(* ai_services.py: _extract_text_from_openai_response on its own.  The     *)
(* initial state holds a reply of responses.create; the one action applies *)
(* the function to it.                                                     *)
(***************************************************************************)
\* the text attribute of an item of response.output, and of a part of its
\* content: missing, empty, or a text
ExtractItemTexts == {None, <<>>, R_padded}
ExtractPartTexts == {None, R_si, R_no}
ExtractContents ==
    {<<>>} \cup {<< Part(a) >> : a \in ExtractPartTexts}
           \cup {<< Part(a), Part(b) >> : a, b \in ExtractPartTexts}
ExtractItems == {Item(t, c) : t \in ExtractItemTexts, c \in ExtractContents}
ExtractOutputs ==
    {<<>>} \cup {<< i >> : i \in ExtractItems}
           \cup {<< i, j >> : i, j \in ExtractItems}
ExtractResponses ==
    [output_text : {None, <<>>, R_blank}, output : ExtractOutputs]

InitExtract ==
    /\ GatingAtRest
    /\ ThreadsIdle
    /\ NewsIdle
    /\ s_pc = "idle"
    /\ s_fn = "none"
    /\ s_text = None
    /\ s_client = TRUE
    /\ s_calls = <<>>
    /\ s_primary \in {Responded(r) : r \in ExtractResponses}
    /\ s_secondary = NoSecondary
    /\ s_result = None

\* summary_text = _extract_text_from_openai_response(response)
Extract ==
    /\ s_pc = "idle"
    /\ s_result' = _extract_text_from_openai_response(s_primary.response)
    /\ s_pc' = "extracted"
    /\ UNCHANGED <<s_fn, s_text, s_client, s_calls, s_primary, s_secondary,
                   gating_vars, lock_vars, news_vars>>

NextExtract == Extract

SpecExtract == InitExtract /\ [][NextExtract]_vars

\* the places of the structured output where a text fragment can be: <<i, 0>>
\* is the text of item i, <<i, j>> the text of part j of its content
Places(output) ==
    UNION { {<<i, j>> : j \in 0..Len(output[i].content)} : i \in 1..Len(output) }
Fragment(output, place) ==
    IF place[2] = 0 THEN output[place[1]].text
    ELSE output[place[1]].content[place[2]].text
\* place p comes before place q when the output is read item by item, an
\* item's own text before the parts of its content
Before(p, q) == p[1] < q[1] \/ (p[1] = q[1] /\ p[2] < q[2])
Present(output) == {p \in Places(output) : Truthy(Fragment(output, p))}

\* C28: text extraction returns exactly one fragment, never a concatenation:
\* the consolidated output_text when it is non-empty; otherwise the first
\* present fragment of the structured output, read item by item with an
\* item's own text before its nested content fragments; and None when no
\* fragment is present.
C28_ExtractFirstFragment ==
    s_pc = "extracted" =>
        LET response == s_primary.response
            present  == Present(response.output)
        IN  /\ Truthy(response.output_text) => s_result = response.output_text
            /\ (~Truthy(response.output_text) /\ present # {}) =>
                  \E p \in present :
                      /\ s_result = Fragment(response.output, p)
                      /\ \A q \in present : ~Before(q, p)
            /\ (~Truthy(response.output_text) /\ present = {}) => s_result = None

\* no consolidated text, a first item with an empty text whose second part
\* is the first present fragment, and a second item with a text of its own:
\* the part is returned alone
C28_Witness ==
    /\ s_pc = "extracted"
    /\ s_primary.response =
          [output_text |-> <<>>,
           output |-> << Item(<<>>, << Part(None), Part(R_no) >>),
                         Item(R_padded, << Part(R_si) >>) >>]
    /\ s_result = R_no

(***************************************************************************)
(* gating.py: Decide calls on texts that share their cache key, with the   *)
(* most recent classifier call kept beside the cache: what it was asked,   *)
(* what it answered, when, and what the Decide call that made it returned. *)
(***************************************************************************)
CachedTexts == {T_inflacion, T_mercosur, T_clima}
CachedConfigs ==
    [strategy : {RawKeywords, RawModelPadded}, ttl : {1, 2}, fallback : BOOLEAN]

InitCached ==
    /\ \E c \in CachedConfigs :
        /\ GATING_STRATEGY = c.strategy
        /\ GATING_CACHE_TTL_SECONDS = c.ttl
        /\ MODEL_BASED_GATING_FALLBACK_TO_KEYWORDS = c.fallback
    /\ ENABLE_GATING = TRUE
    /\ GATING_MATCH_MODE = RawAllow
    /\ GATING_KEYWORDS = ConfigKeywords(<< K_EstadoPadded, K_mercosur, K_blank >>)
    /\ GATING_DEFAULT_ON_ERROR = TRUE
    /\ USE_MODEL_BASED_GATING = TRUE
    /\ _CACHE = EmptyCache
    /\ now = 0
    /\ last = NoCall
    /\ s_pc = "idle"
    /\ s_fn = "none"
    /\ s_text = None
    /\ s_client = TRUE
    /\ s_calls = <<>>
    /\ s_primary = NoPrimary
    /\ s_secondary = NoSecondary
    /\ s_result = None
    /\ ThreadsIdle
    /\ NewsIdle

\* is_article_relevant(text) called at line 110 by a Decide call that goes on
\* to return allowed and to store, or not, its decision
Asked(text, cls, obs) ==
    [api |-> "is_article_relevant", text |-> text, outcome |-> cls,
     at |-> obs.at, allowed |-> obs.allowed, stored |-> obs.stored]

\* should_summarize_with_matches(text); of the classifier calls made so far
\* s_calls keeps the most recent one
CallDecideCached ==
    \E text \in CachedTexts, cls \in ClassifierInputs :
        LET r == should_summarize_with_matches(text, FALSE, cls) IN
        /\ r.classifier <=> cls \in ClassifierOutcomes
        /\ _CACHE' = r.cache
        /\ last' = r.obs
        /\ s_calls' = IF r.classifier THEN << Asked(text, cls, r.obs) >> ELSE s_calls
        /\ UNCHANGED <<config, now, s_pc, s_fn, s_text, s_client, s_primary,
                       s_secondary, s_result, lock_vars, news_vars>>

NextCached == CallDecideCached \/ Tick

SpecCached == InitCached /\ [][NextCached]_vars

\* the normalized forms of two texts agree on their first SnippetLen
\* characters: on all of them when one is shorter than that
SamePrefix(a, b) ==
    LET na == normalized_of[a]
        nb == normalized_of[b]
    IN  /\ \A i \in 1..SnippetLen :
            /\ (i <= Len(na)) <=> (i <= Len(nb))
            /\ i <= Len(na) => na[i] = nb[i]

\* what the keyword path alone would decide for a text
KeywordDecision(text) == _evaluate_matches(matches_of[text, GATING_KEYWORDS])

\* C31: when a call has stored its decision and, less than TTL later, Decide
\* is called with another text whose normalized form agrees with the first
\* on its first SnippetLen characters, the second call returns the first's
\* decision from the cache: no classifier call, no keyword scan, no matches,
\* whatever the rest of the second text would have given.
C31_SharedPrefixSharesDecision ==
    [][(/\ DecideCall
        /\ Called(last) /\ last.stored
        /\ last'.text # last.text
        /\ SamePrefix(last.text, last'.text)
        /\ now < last.at + GATING_CACHE_TTL_SECONDS)
        => /\ last'.hit
           /\ last'.allowed = last.allowed
           /\ ~Evaluated(last')
           /\ last'.matches = <<>>]_vars

\* under the keyword strategy a text with the keyword "mercosur" beyond the
\* prefix was denied from the cache: only the evaluation of the text sharing
\* its prefix, which has no keyword, can have stored that
C31_Witness ==
    /\ strategy = S_keywords
    /\ IsDecide(last) /\ last.hit /\ ~last.allowed
    /\ last.text = T_mercosur
    /\ Len(normalized_of[T_mercosur]) > SnippetLen
    /\ KeywordDecision(T_mercosur)
    /\ ~KeywordDecision(T_inflacion)
    /\ normalized_of[T_mercosur] # normalized_of[T_inflacion]

\* the most recent classifier call was indeterminate and the Decide call
\* that made it stored the decision of its keyword fallback
FallbackStored ==
    /\ s_calls # <<>>
    /\ s_calls[1].outcome \in {"None", "raise"}
    /\ s_calls[1].stored

\* C32: a Decide call stores the decision of the keyword fallback after an
\* indeterminate classifier answer under the key of its text, the key a
\* model decision is stored under; from then on every Decide call for a text
\* with that key made less than TTL later returns that decision from the
\* cache and does not call the classifier, whatever the classifier would
\* answer now; the first such call at or after the expiry calls the
\* classifier again.
C32_FallbackDecisionCachedLikeModel ==
    [][DecideCall
        => /\ (last'.cls # "not_called" /\ last'.stored)
                => /\ KeyOf(last'.text) \in DOMAIN _CACHE'
                   /\ _CACHE'[KeyOf(last'.text)] = Entry(now, last'.allowed)
           /\ (FallbackStored /\ KeyOf(last'.text) = KeyOf(s_calls[1].text))
                => /\ now < s_calls[1].at + GATING_CACHE_TTL_SECONDS
                        => /\ last'.hit
                           /\ last'.cls = "not_called"
                           /\ last'.allowed = s_calls[1].allowed
                           /\ s_calls' = s_calls
                   /\ now >= s_calls[1].at + GATING_CACHE_TTL_SECONDS
                        => /\ ~last'.hit
                           /\ last'.cls # "not_called"
                           /\ s_calls'[1].at = now]_vars

\* the classifier answered None for a text, the keyword fallback denied it,
\* and a later Decide for the same key, made after the clock advanced but
\* within the TTL, returned that denial without a classifier call
C32_Witness ==
    /\ FallbackStored
    /\ s_calls[1].outcome = "None" /\ ~s_calls[1].allowed
    /\ IsDecide(last) /\ last.hit /\ last.cls = "not_called"
    /\ KeyOf(last.text) = KeyOf(s_calls[1].text)
    /\ last.at > s_calls[1].at
    /\ last.at < s_calls[1].at + GATING_CACHE_TTL_SECONDS
    /\ ~last.allowed

====
